---- MODULE Spec2Model ----
(***************************************************************************)
(* Model of the batch media-processing pipeline of the compressor          *)
(* extension: file classification, the five transform operations, the      *)
(* stage orchestrator (file-router.ts) and the batch coordinator           *)
(* (batch-processor.ts, both variants found in the repository).            *)
(*                                                                         *)
(* A file name is the sequence of its dot-separated components             *)
(* ("a.min.webp" is <<"a", "min", "webp">>), a path is a directory (a      *)
(* sequence of folder names) and a name.  The file system maps the paths   *)
(* that exist to their content; the external encoders are a                *)
(* nondeterministic choice over the ways a process can end.                *)
(***************************************************************************)
EXTENDS Integers, Sequences, FiniteSets, TLC

\* ------------------------------------------------------------------ bounds
MaxFiles == 2
\* the size in bytes of every file on disk when the batch starts
SrcSize == 2

\* ------------------------------------------------------- undefined values
Undef == -1
NoName == << >>
NoPath == [dir |-> << >>, name |-> << >>]

\* ------------------------------------------------------------------ state
VARIABLES
  files,               \* filePaths, the input list
  options,             \* ProcessingOptions
  outputFolderName,    \* preferences.outputFolderName?.trim(), "" when unset
  fs,                  \* the files on disk: path -> content
  dirs,                \* the directories on disk
  pc,                  \* where processBatch is
  i,                   \* the loop index, from 1
  result,              \* what routeFileCompression returned for files[i]
  results, errors,
  successCount, failureCount,
  totalOriginalSize, totalProcessedSize,
  batch,               \* the BatchResult processBatch returned
  calls,               \* the transform operations invoked for files[i]
  srcSize,             \* size of files[i] when its pipeline started
  guarded,             \* files the PDF size guard applied to, with their content then
  log,                 \* what happened to each file, in order
  platform,            \* process.platform
  cachedFfmpegPath,    \* the module-level cache of getFfmpegPath
  cachedGhostscriptPath, \* the module-level cache of getGhostscriptPath
  resolved,            \* the resolve call just made: tool, value returned,
                       \* whether it came from the cache, the cache before
  detected,            \* what detectFileCategory returned, with the MIME type
                       \* it had sniffed
  titles,              \* the percentages in the titles of the toasts the
                       \* progress callback of files[i] showed
  compressionMode,     \* preferences.compressionMode, "" when unset
  summary,             \* what generateBatchSummary returned
  frame                \* an image handed to the scale filter of resizeImage:
                       \* its size, the preset and the size that comes out

vars == <<files, options, outputFolderName, fs, dirs, pc, i, result, results,
          errors, successCount, failureCount, totalOriginalSize,
          totalProcessedSize, batch, calls, srcSize, guarded, log, platform,
          cachedFfmpegPath, cachedGhostscriptPath, resolved, detected, titles,
          compressionMode, summary, frame>>

\* ------------------------------------------------------------------ paths
Front(s) == SubSeq(s, 1, Len(s) - 1)
Last(s) == s[Len(s)]

toLowerCase(c) ==
  CASE c = "PDF" -> "pdf"
    [] c = "PNG" -> "png"
    [] OTHER -> c

\* path.extname: the last component, when there is more than one
extname(name) == IF Len(name) > 1 THEN Last(name) ELSE ""

\* path.basename(p, ext): the extension is stripped only on an exact match
basenameExt(name, ext) ==
  IF Len(name) > 1 /\ Last(name) = ext THEN Front(name) ELSE name

\* (a name that keeps the suffix it already carries: "a.min.webp" stays)
OutputPathForKeepsSuffix(inputPath, suffix) ==
  IF Len(inputPath.name) > Len(suffix)
     /\ SubSeq(inputPath.name, Len(inputPath.name) - Len(suffix) + 1,
               Len(inputPath.name)) = suffix
  THEN inputPath
  ELSE [dir |-> inputPath.dir,
        name |-> basenameExt(inputPath.name, toLowerCase(extname(inputPath.name))) \o suffix]

\* const ext = path.extname(inputPath).toLowerCase();
\* const dir = path.dirname(inputPath);
\* const basename = path.basename(inputPath, ext);
\* const outputPath = path.join(dir, `${basename}<suffix>`);
OutputPathFor(inputPath, suffix) ==
  [dir |-> inputPath.dir,
   name |-> basenameExt(inputPath.name, toLowerCase(extname(inputPath.name))) \o suffix]

\* path.join(sourceDir, outputFolderName)
JoinDir(dir, folder) == IF folder = "." THEN dir ELSE Append(dir, folder)

\* ------------------------------------------------------------ file system
Exists(f, p) == p \in DOMAIN f

WriteFile(f, p, c) == [q \in (DOMAIN f) \cup {p} |-> IF q = p THEN c ELSE f[q]]

Unlink(f, p) == [q \in (DOMAIN f) \ {p} |-> f[q]]

Rename(f, from, to) ==
  [q \in ((DOMAIN f) \ {from}) \cup {to} |-> IF q = to THEN f[from] ELSE f[q]]

\* ----------------------------------------------------------- tool locator
\* A cached path that is null and a foundPath that is "" are both NoPath.
\* The lists of well-known locations are kept to their first entries.

\* process.platform
Platforms == {"darwin", "linux", "win32"}

isWindows(os) == os = "win32"

\* environment.assetsPath, and path.resolve(environment.assetsPath, "..")
assetsPath == <<"ext", "assets">>
extensionDir == <<"ext">>

\* a bare executable name: a relative path, left to the PATH lookup of the
\* OS loader
BareName(name) == [dir |-> << >>, name |-> name]

\* the first path of the list that exists, NoPath when none does
FirstExisting(f, paths) ==
  IF \E k \in 1..Len(paths) : Exists(f, paths[k])
  THEN paths[CHOOSE k \in 1..Len(paths) :
               /\ Exists(f, paths[k])
               /\ \A j \in 1..(k - 1) : ~Exists(f, paths[j])]
  ELSE NoPath

\* `ffmpeg${exeExtension}`
ffmpegExe(os) == IF isWindows(os) THEN <<"ffmpeg", "exe">> ELSE <<"ffmpeg">>

ffmpegModule(dir, os) ==
  [dir |-> dir \o <<"node_modules", "ffmpeg-static">>, name |-> ffmpegExe(os)]

\* what require("ffmpeg-static") evaluates to: the binary inside the package
\* that module resolution finds, here the one under process.cwd()
ffmpegStaticPath(os) == ffmpegModule(<<"cwd">>, os)

\* searchPaths: process.cwd() and the extension directory
searchPaths(os) ==
  <<ffmpegModule(<<"cwd">>, os), ffmpegModule(extensionDir, os)>>

ffmpegAssetPath(os) == [dir |-> assetsPath, name |-> ffmpegExe(os)]

systemPaths == <<[dir |-> <<"opt", "homebrew", "bin">>, name |-> <<"ffmpeg">>]>>

\* (a search that looks at the bundled asset before anything else)
ffmpegFoundPathAssetFirst(f, os, requireOk) ==
  LET p0 == IF Exists(f, ffmpegAssetPath(os))
            THEN ffmpegAssetPath(os) ELSE NoPath
      p1 == IF p0 = NoPath /\ requireOk /\ Exists(f, ffmpegStaticPath(os))
            THEN ffmpegStaticPath(os) ELSE p0
      p2 == IF p1 = NoPath THEN FirstExisting(f, searchPaths(os)) ELSE p1
      p4 == IF p2 = NoPath /\ os = "darwin"
            THEN FirstExisting(f, systemPaths) ELSE p2
  IN IF p4 = NoPath THEN BareName(<<"ffmpeg">>) ELSE p4

\* the search of getFfmpegPath, from the ffmpeg-static module down to the
\* bare name; requireOk says that require("ffmpeg-static") did not throw
ffmpegFoundPath(f, os, requireOk) ==
  LET p1 == IF requireOk /\ Exists(f, ffmpegStaticPath(os))
            THEN ffmpegStaticPath(os) ELSE NoPath
      p2 == IF p1 = NoPath THEN FirstExisting(f, searchPaths(os)) ELSE p1
      p3 == IF p2 = NoPath /\ Exists(f, ffmpegAssetPath(os))
            THEN ffmpegAssetPath(os) ELSE p2
      p4 == IF p3 = NoPath /\ os = "darwin"
            THEN FirstExisting(f, systemPaths) ELSE p3
  IN IF p4 = NoPath THEN BareName(<<"ffmpeg">>) ELSE p4

\* (a locator that reuses its cached path without looking whether it is
\* still there)
getFfmpegPathTrustsCache(f, os, cached, requireOk) ==
  IF cached # NoPath
  THEN [path |-> cached, cached |-> cached, hit |-> TRUE]
  ELSE [path |-> ffmpegFoundPath(f, os, requireOk),
        cached |-> ffmpegFoundPath(f, os, requireOk), hit |-> FALSE]

\* getFfmpegPath(): the value returned, the cache afterwards and whether the
\* cached path was reused
getFfmpegPath(f, os, cached, requireOk) ==
  IF cached # NoPath /\ Exists(f, cached)
  THEN [path |-> cached, cached |-> cached, hit |-> TRUE]
  ELSE [path |-> ffmpegFoundPath(f, os, requireOk),
        cached |-> ffmpegFoundPath(f, os, requireOk), hit |-> FALSE]

\* exeName of getGhostscriptPath
exeName(os) == IF isWindows(os) THEN <<"gswin64c", "exe">> ELSE <<"gs">>

\* path.join(baseDir, version, "bin", "gswin64c.exe") under C:\Program Files\gs
gsPath(version) ==
  [dir |-> <<"C:", "Program Files", "gs", version, "bin">>, name |-> <<"gswin64c", "exe">>]

\* the version directories fs.readdirSync(baseDir) may list, in its order
versions == <<"gs10.04.0", "gs9.56.1">>

\* windowsPaths after the directory scan: each installation found is put in
\* front of the list (unshift), so the last one found comes first
windowsPaths(f) ==
  LET found == SelectSeq(versions, LAMBDA v : Exists(f, gsPath(v)))
  IN [k \in 1..Len(found) |-> gsPath(found[Len(found) + 1 - k])]
       \o <<gsPath("gs10.04.0")>>

unixPaths ==
  <<[dir |-> <<"opt", "homebrew", "bin">>, name |-> <<"gs">>],
    [dir |-> <<"usr", "bin">>, name |-> <<"gs">>]>>

gsAssetPath(os) == [dir |-> assetsPath, name |-> exeName(os)]

\* (a search without the final fallback to the bare name)
gsFoundPathNoFallback(f, os) ==
  LET p1 == IF isWindows(os) THEN FirstExisting(f, windowsPaths(f))
            ELSE FirstExisting(f, unixPaths)
  IN IF p1 = NoPath /\ Exists(f, gsAssetPath(os))
     THEN gsAssetPath(os) ELSE p1

\* the search of getGhostscriptPath, from the system locations down to the
\* bare name
gsFoundPath(f, os) ==
  LET p1 == IF isWindows(os) THEN FirstExisting(f, windowsPaths(f))
            ELSE FirstExisting(f, unixPaths)
      p2 == IF p1 = NoPath /\ Exists(f, gsAssetPath(os))
            THEN gsAssetPath(os) ELSE p1
  IN IF p2 = NoPath THEN BareName(exeName(os)) ELSE p2

\* (a locator that searches on every call)
getGhostscriptPathAlwaysSearches(f, os, cached) ==
  [path |-> gsFoundPath(f, os), cached |-> gsFoundPath(f, os), hit |-> FALSE]

\* getGhostscriptPath()
getGhostscriptPath(f, os, cached) ==
  IF cached # NoPath /\ Exists(f, cached)
  THEN [path |-> cached, cached |-> cached, hit |-> TRUE]
  ELSE [path |-> gsFoundPath(f, os), cached |-> gsFoundPath(f, os),
        hit |-> FALSE]

\* ---------------------------------------------------- external processes
\* How one external-process invocation can end: the executable cannot be
\* started, it exits with an error, it exits cleanly without writing its
\* output, or it writes an output that is smaller than, as large as or
\* larger than the files the batch starts with.
OutputSizes == (SrcSize - 1)..(SrcSize + 1)

Outcomes ==
  {[kind |-> k, size |-> 0] : k \in {"spawn", "exit", "noout"}}
    \cup {[kind |-> "ok", size |-> s] : s \in OutputSizes}

\* the file system after execFileAsync(tool, [..., "-y", outputPath])
ExecFile(f, outputPath, mime, oc) ==
  IF oc.kind = "ok"
  THEN WriteFile(f, outputPath, [mime |-> mime, size |-> oc.size, data |-> "out"])
  ELSE f

\* a path as the string the messages show it in
RECURSIVE Join(_, _)
Join(seq, sep) ==
  IF Len(seq) = 0 THEN ""
  ELSE IF Len(seq) = 1 THEN seq[1]
  ELSE seq[1] \o sep \o Join(Tail(seq), sep)

PathString(p) ==
  IF p.dir = << >> THEN Join(p.name, ".")
  ELSE (IF p.dir[1] = "C:" THEN "" ELSE "/") \o Join(p.dir, "/") \o "/" \o Join(p.name, ".")

\* const ffmpegPath = getFfmpegPath() and const gsPath = getGhostscriptPath()
\* inside a transform operation. The operations write no file a search looks
\* at, so a second call of one pipeline resolves to what the first did.
ffmpegTool(f) == getFfmpegPath(f, platform, cachedFfmpegPath, TRUE).path
gsTool(f) == getGhostscriptPath(f, platform, cachedGhostscriptPath).path

\* the message of the error execFileAsync rejects with: Node's
\* "spawn <file> ENOENT" when the executable cannot be started, and
\* "Command failed: <file> ..." when it exits with an error
\* (an error that does not say what could not be started)
SpawnErrorAnonymous(tool) == "spawn ENOENT"

SpawnError(tool) == "spawn " \o PathString(tool) \o " ENOENT"

ExecError(oc, tool) ==
  IF oc.kind = "spawn" THEN SpawnError(tool)
  ELSE "Command failed: " \o PathString(tool)

\* errorMessage.includes("spawn") || errorMessage.includes("ENOENT")
\* (of the messages an operation using this tool can throw)
MentionsSpawnOrENOENT(msg, tool) ==
  msg \in {SpawnError(tool), "ENOENT: no such file or directory, stat"}

\* --------------------------------------------------------------- results
\* A ProcessingResult / CompressionResult / PDFCompressionResult object: a
\* field the code leaves out is Undef, NoPath, NoName or "".
Failure(err, fileName, fileType) ==
  [success |-> FALSE, outputPath |-> NoPath, originalSize |-> Undef,
   processedSize |-> Undef, compressedSize |-> Undef, error |-> err,
   fileName |-> fileName, fileType |-> fileType]

StatError == "ENOENT: no such file or directory, stat"

\* what the try block of a transform operation throws, or "" when it runs
\* to its return statement
Thrown(f, inputPath, outputPath, mime, oc, notCreated, tool) ==
  IF ~Exists(f, inputPath) THEN StatError
  ELSE IF oc.kind \in {"spawn", "exit"} THEN ExecError(oc, tool)
  ELSE IF ~Exists(ExecFile(f, outputPath, mime, oc), outputPath) THEN notCreated
  ELSE ""

\* the file system a transform operation leaves behind
AfterExec(f, inputPath, outputPath, mime, oc) ==
  IF ~Exists(f, inputPath) THEN f ELSE ExecFile(f, outputPath, mime, oc)

\* progressCallback?.(stage, percentage, message)
Report(stage, percentage) == [stage |-> stage, percentage |-> percentage]

\* (an operation that returns without its last report)
ReportedNoCompletion(f, inputPath, outputPath, mime, oc, before) ==
  IF ~Exists(f, inputPath) THEN <<before[1]>>
  ELSE IF oc.kind \in {"spawn", "exit"} THEN before
  ELSE Append(before, Report("Finalizing", 90))

\* the reports a transform operation makes before it returns or throws:
\* the first one precedes fs.statSync(inputPath), the rest of `before`
\* precede execFileAsync, 90 follows it and 100 follows the look for the
\* output file
Reported(f, inputPath, outputPath, mime, oc, before) ==
  IF ~Exists(f, inputPath) THEN <<before[1]>>
  ELSE IF oc.kind \in {"spawn", "exit"} THEN before
  ELSE IF ~Exists(ExecFile(f, outputPath, mime, oc), outputPath)
  THEN Append(before, Report("Finalizing", 90))
  ELSE before \o <<Report("Finalizing", 90), Report("Finalizing", 100)>>

\* ---------------------------------------------------- transform engine
\* resizeImage and resizeVideo return a ProcessingResult (processedSize)
\* (the body of a resize operation, once outputPath and ffmpegPath are known)
ResizeWith(f, inputPath, outputPath, mime, fileType, mid, oc, tool) ==
  LET thrown == Thrown(f, inputPath, outputPath, mime, oc, "Output file not created",
                       tool)
      f1 == AfterExec(f, inputPath, outputPath, mime, oc)
      progress == Reported(f, inputPath, outputPath, mime, oc,
                           <<Report("Analyzing file", 10), Report("Resizing", 30),
                             Report("Resizing", mid)>>)
  IN IF thrown = ""
     THEN [r |-> [success |-> TRUE, outputPath |-> outputPath,
                  originalSize |-> f[inputPath].size,
                  processedSize |-> f1[outputPath].size,
                  compressedSize |-> Undef, error |-> "",
                  fileName |-> outputPath.name, fileType |-> fileType],
           fs |-> f1, progress |-> progress]
     ELSE [r |-> Failure(IF MentionsSpawnOrENOENT(thrown, tool)
                         THEN "FFmpeg not found. " \o thrown ELSE thrown,
                         inputPath.name, fileType),
           fs |-> f1, progress |-> progress]

Resize(f, inputPath, suffix, mime, fileType, mid, oc) ==
  ResizeWith(f, inputPath, OutputPathFor(inputPath, suffix), mime, fileType, mid,
             oc, ffmpegTool(f))

\* (a resize that trusts the exit status and never looks for its output)
resizeImageTrustsExit(f, inputPath, oc) ==
  IF Exists(f, inputPath) /\ oc.kind = "noout"
  THEN [r |-> [success |-> TRUE,
               outputPath |-> OutputPathFor(inputPath, <<"resized", "webp">>),
               originalSize |-> f[inputPath].size, processedSize |-> Undef,
               compressedSize |-> Undef, error |-> "",
               fileName |-> OutputPathFor(inputPath, <<"resized", "webp">>).name,
               fileType |-> "image"],
        fs |-> f,
        progress |-> <<Report("Analyzing file", 10), Report("Resizing", 30),
                       Report("Resizing", 60), Report("Finalizing", 90),
                       Report("Finalizing", 100)>>]
  ELSE Resize(f, inputPath, <<"resized", "webp">>, "image/webp", "image", 60, oc)

resizeImage(f, inputPath, oc) ==
  Resize(f, inputPath, <<"resized", "webp">>, "image/webp", "image", 60, oc)

resizeVideo(f, inputPath, oc) ==
  Resize(f, inputPath, <<"resized", "mp4">>, "video/mp4", "video", 50, oc)

\* compressImage and compressVideo return a CompressionResult (compressedSize)
\* (the body of a compress operation, once outputPath and ffmpegPath are known)
CompressWith(f, inputPath, outputPath, mime, oc, tool) ==
  LET thrown == Thrown(f, inputPath, outputPath, mime, oc,
                       "Output file not created. FFmpeg stderr", tool)
      f1 == AfterExec(f, inputPath, outputPath, mime, oc)
      progress == Reported(f, inputPath, outputPath, mime, oc,
                           <<Report("Analyzing", 10), Report("Compressing", 40)>>)
  IN IF thrown = ""
     THEN [r |-> [success |-> TRUE, outputPath |-> outputPath,
                  originalSize |-> f[inputPath].size,
                  processedSize |-> Undef,
                  compressedSize |-> f1[outputPath].size, error |-> "",
                  fileName |-> NoName, fileType |-> "undefined"],
           fs |-> f1, progress |-> progress]
     ELSE [r |-> Failure(IF MentionsSpawnOrENOENT(thrown, tool)
                         THEN "FFmpeg not found. Tried: " \o PathString(tool)
                                \o ". Asset path: "
                                \o PathString(ffmpegAssetPath(platform))
                                \o ". Error: " \o thrown
                         ELSE thrown,
                         NoName, "undefined"),
           fs |-> f1, progress |-> progress]

Compress(f, inputPath, suffix, mime, oc) ==
  CompressWith(f, inputPath, OutputPathFor(inputPath, suffix), mime, oc,
               ffmpegTool(f))

compressImage(f, inputPath, oc) ==
  Compress(f, inputPath, <<"min", "webp">>, "image/webp", oc)

compressVideo(f, inputPath, oc) ==
  Compress(f, inputPath, <<"min", "mp4">>, "video/mp4", oc)

\* (a guard that lets an output of equal size through)
GuardAppliesStrict(compressedSize, originalSize) == compressedSize > originalSize

\* the size guard of compressPDF
GuardApplies(compressedSize, originalSize) == compressedSize >= originalSize

\* (the body of compressPDF, once outputPath and gsPath are known)
compressPDFWith(f, inputPath, outputPath, oc, tool) ==
  LET thrown == Thrown(f, inputPath, outputPath, "application/pdf", oc,
                       "Output file not created. Ghostscript stderr", tool)
      f1 == AfterExec(f, inputPath, outputPath, "application/pdf", oc)
      progress == Reported(f, inputPath, outputPath, "application/pdf", oc,
                           <<Report("Analyzing", 10), Report("Compressing", 40)>>)
  IN IF thrown # ""
     THEN [r |-> Failure(IF MentionsSpawnOrENOENT(thrown, tool)
                         THEN "Ghostscript not found. Tried: " \o PathString(tool)
                                \o ". Please install Ghostscript from https://ghostscript.com/releases/gsdnld.html (Windows) or via 'brew install ghostscript' (macOS). Error: "
                                \o thrown
                         ELSE thrown,
                         NoName, "undefined"),
           fs |-> f1, progress |-> progress]
     ELSE IF GuardApplies(f1[outputPath].size, f[inputPath].size)
     THEN \* fs.unlinkSync(outputPath); the original file is the result
          [r |-> [success |-> TRUE, outputPath |-> inputPath,
                  originalSize |-> f[inputPath].size, processedSize |-> Undef,
                  compressedSize |-> f[inputPath].size, error |-> "",
                  fileName |-> NoName, fileType |-> "undefined"],
           fs |-> Unlink(f1, outputPath), progress |-> progress]
     ELSE [r |-> [success |-> TRUE, outputPath |-> outputPath,
                  originalSize |-> f[inputPath].size, processedSize |-> Undef,
                  compressedSize |-> f1[outputPath].size, error |-> "",
                  fileName |-> NoName, fileType |-> "undefined"],
           fs |-> f1, progress |-> progress]

compressPDF(f, inputPath, oc) ==
  compressPDFWith(f, inputPath, OutputPathFor(inputPath, <<"min", "pdf">>), oc,
                  gsTool(f))

\* ------------------------------------------------------- resize presets
\* A ResizePreset: maxWidth/maxHeight or width/height, a field the catalog
\* leaves out is 0 (undefined and 0 are both falsy where the code tests it).
Bounded(name, maxWidth, maxHeight) ==
  [name |-> name, maxWidth |-> maxWidth, maxHeight |-> maxHeight, width |-> 0, height |-> 0]

Exact(name, width, height) ==
  [name |-> name, maxWidth |-> 0, maxHeight |-> 0, width |-> width, height |-> height]

IMAGE_PRESETS ==
  <<Bounded("2K", 2560, 2560), Bounded("Large", 1920, 1920),
    Bounded("Medium", 1280, 1280), Bounded("Small", 800, 800),
    Bounded("Thumbnail", 400, 400)>>

VIDEO_PRESETS ==
  <<Exact("1440p", 2560, 1440), Exact("1080p", 1920, 1080),
    Exact("720p", 1280, 720), Exact("480p", 854, 480)>>

\* an options.resizePreset that is undefined
NoPreset == Bounded("undefined", 0, 0)

\* PRESETS.find((p) => p.name === name): undefined when no preset has the name
Find(presets, name) ==
  IF \E k \in 1..Len(presets) : presets[k].name = name
  THEN presets[CHOOSE k \in 1..Len(presets) : presets[k].name = name]
  ELSE NoPreset

\* --------------------------------------------------- stage orchestrator
\* Each process* returns the result, the file system it leaves and the
\* transform operations it invoked, in order, each with its input path, the
\* way its external process ended and the result it returned.
\* const x = await ...: the one value of a set of one, x being evaluated once
Only(S) == CHOOSE v \in S : TRUE

\* (preset is the ResizePreset handed to a resize operation, NoPreset for a
\* compress operation, which takes none)
Call(op, inputPath, preset, out, oc) ==
  [op |-> op, input |-> inputPath, preset |-> preset, r |-> out.r, oc |-> oc,
   progress |-> out.progress]

\* if (fs.existsSync(resizeResult.outputPath) &&
\*     resizeResult.outputPath !== compressResult.outputPath) fs.unlinkSync(...)
CleanupIntermediate(f, resizeResult, compressResult) ==
  IF compressResult.success
     /\ Exists(f, resizeResult.outputPath)
     /\ resizeResult.outputPath # compressResult.outputPath
  THEN Unlink(f, resizeResult.outputPath)
  ELSE f

\* (the compress result returned as it is)
PropagateOriginalSizeDropped(resizeResult, compressResult) == compressResult

\* compressResult.originalSize = resizeResult.originalSize, on success
PropagateOriginalSize(resizeResult, compressResult) ==
  IF compressResult.success
  THEN [compressResult EXCEPT !.originalSize = resizeResult.originalSize]
  ELSE compressResult

NoOptionsResult ==
  Failure("No processing options specified", NoName, "undefined")

\* (compress called whatever the resize returned)
TwoStageAlwaysCompress(filePath, preset, resizeOut, compressOut, resizeName, compressName, oc1, oc2) ==
  [r |-> PropagateOriginalSize(resizeOut.r, compressOut.r),
   fs |-> CleanupIntermediate(compressOut.fs, resizeOut.r, compressOut.r),
   calls |-> <<Call(resizeName, filePath, preset, resizeOut, oc1),
               Call(compressName, resizeOut.r.outputPath, NoPreset, compressOut, oc2)>>]

\* the body shared by processImage and processVideo, which differ only in
\* the two transform operations they call
\* (compressOut is the compress operation applied to the resize output; it is
\* used only on the branch where the code makes that call)
TwoStage(filePath, preset, resizeOut, compressOut, resizeName, compressName, oc1, oc2) ==
  LET resizeResult == resizeOut.r
  IN IF resizeResult.success /\ resizeResult.outputPath # NoPath
     THEN LET c == compressOut
          IN [r |-> PropagateOriginalSize(resizeResult, c.r),
              fs |-> CleanupIntermediate(c.fs, resizeResult, c.r),
              calls |-> <<Call(resizeName, filePath, preset, resizeOut, oc1),
                          Call(compressName, resizeResult.outputPath, NoPreset, c, oc2)>>]
     ELSE [r |-> resizeResult, fs |-> resizeOut.fs,
           calls |-> <<Call(resizeName, filePath, preset, resizeOut, oc1)>>]

processImage(f, filePath, opts, oc1, oc2) ==
  IF opts.resize /\ opts.compress /\ opts.resizePreset # NoPreset
  THEN Only({TwoStage(filePath, opts.resizePreset, x,
                      compressImage(x.fs, x.r.outputPath, oc2),
                      "resizeImage", "compressImage", oc1, oc2) :
              x \in {resizeImage(f, filePath, oc1)}})
  ELSE IF opts.resize /\ opts.resizePreset # NoPreset
  THEN LET x == resizeImage(f, filePath, oc1)
       IN [r |-> x.r, fs |-> x.fs, calls |-> <<Call("resizeImage", filePath, opts.resizePreset, x, oc1)>>]
  ELSE IF opts.compress
  THEN LET x == compressImage(f, filePath, oc1)
       IN [r |-> x.r, fs |-> x.fs, calls |-> <<Call("compressImage", filePath, NoPreset, x, oc1)>>]
  ELSE [r |-> NoOptionsResult, fs |-> f, calls |-> << >>]

processVideo(f, filePath, opts, oc1, oc2) ==
  IF opts.resize /\ opts.compress /\ opts.resizePreset # NoPreset
  THEN Only({TwoStage(filePath, opts.resizePreset, x,
                      compressVideo(x.fs, x.r.outputPath, oc2),
                      "resizeVideo", "compressVideo", oc1, oc2) :
              x \in {resizeVideo(f, filePath, oc1)}})
  ELSE IF opts.resize /\ opts.resizePreset # NoPreset
  THEN LET x == resizeVideo(f, filePath, oc1)
       IN [r |-> x.r, fs |-> x.fs, calls |-> <<Call("resizeVideo", filePath, opts.resizePreset, x, oc1)>>]
  ELSE IF opts.compress
  THEN LET x == compressVideo(f, filePath, oc1)
       IN [r |-> x.r, fs |-> x.fs, calls |-> <<Call("compressVideo", filePath, NoPreset, x, oc1)>>]
  ELSE [r |-> NoOptionsResult, fs |-> f, calls |-> << >>]

\* processPDF takes no ProcessingOptions: it always calls compressPDF and
\* copies compressedSize into processedSize
processPDF(f, filePath, oc1) ==
  LET x == compressPDF(f, filePath, oc1)
  IN [r |-> [success |-> x.r.success, outputPath |-> x.r.outputPath,
             originalSize |-> x.r.originalSize,
             processedSize |-> x.r.compressedSize,
             compressedSize |-> Undef, error |-> x.r.error,
             fileName |-> NoName, fileType |-> "undefined"],
      fs |-> x.fs, calls |-> <<Call("compressPDF", filePath, NoPreset, x, oc1)>>]

\* ------------------------------------------------------- file classifier
\* fileTypeFromFile: throws on a file that cannot be read, else the sniffed
\* MIME type, "none" when the content matches no known signature
Sniff(f, filePath) == f[filePath].mime

\* mime.startsWith("image/") and mime.startsWith("video/"), over the MIME
\* types that occur in the model
IsImageMime(mime) == mime \in {"image/png", "image/jpeg", "image/webp"}
IsVideoMime(mime) == mime \in {"video/mp4", "video/webm"}

\* (a classifier that believes the .pdf extension before it looks at the
\* content)
detectFileCategoryByExtension(f, filePath) ==
  IF ~Exists(f, filePath) THEN [category |-> "unsupported", mime |-> "none"]
  ELSE LET mime == Sniff(f, filePath)
       IN IF toLowerCase(extname(filePath.name)) = "pdf"
          THEN [category |-> "pdf", mime |-> "application/pdf"]
          ELSE IF mime = "none" THEN [category |-> "unsupported", mime |-> "none"]
          ELSE IF IsImageMime(mime) THEN [category |-> "image", mime |-> mime]
          ELSE IF IsVideoMime(mime) THEN [category |-> "video", mime |-> mime]
          ELSE IF mime = "application/pdf" THEN [category |-> "pdf", mime |-> mime]
          ELSE [category |-> "unsupported", mime |-> mime]

detectFileCategory(f, filePath) ==
  IF ~Exists(f, filePath) THEN [category |-> "unsupported", mime |-> "none"]
  ELSE LET mime == Sniff(f, filePath)
       IN IF mime = "none"
          THEN IF toLowerCase(extname(filePath.name)) = "pdf"
               THEN [category |-> "pdf", mime |-> "application/pdf"]
               ELSE [category |-> "unsupported", mime |-> "none"]
          ELSE IF IsImageMime(mime) THEN [category |-> "image", mime |-> mime]
          ELSE IF IsVideoMime(mime) THEN [category |-> "video", mime |-> mime]
          ELSE IF mime = "application/pdf" THEN [category |-> "pdf", mime |-> mime]
          ELSE [category |-> "unsupported", mime |-> mime]

\* (what routeFileCompression returns for a file of a supported category:
\* the result of the process function, labelled with category and name)
Routed(x, category, fileName) ==
  [x EXCEPT !.r = [@ EXCEPT !.fileType = category, !.fileName = fileName]]

\* (what routeFileCompression returns for a file detected as d)
routeDetected(f, filePath, opts, oc1, oc2, d) ==
  IF d.category = "unsupported"
  THEN [r |-> Failure(IF d.mime # "none"
                      THEN "Unsupported file type: " \o d.mime
                             \o ". Only images, videos, and PDFs are supported."
                      ELSE "Unsupported file type. Only images, videos, and PDFs are supported.",
                      filePath.name, "undefined"),
        fs |-> f, calls |-> << >>]
  ELSE Routed(CASE d.category = "image" -> processImage(f, filePath, opts, oc1, oc2)
                [] d.category = "video" -> processVideo(f, filePath, opts, oc1, oc2)
                [] OTHER -> processPDF(f, filePath, oc1),
              d.category, filePath.name)

\* (a router that leaves the detected MIME type out of its message)
routeFileCompressionNoMime(f, filePath, opts, oc1, oc2) ==
  LET d == detectFileCategory(f, filePath)
      fileName == filePath.name
      x == CASE d.category = "image" -> processImage(f, filePath, opts, oc1, oc2)
             [] d.category = "video" -> processVideo(f, filePath, opts, oc1, oc2)
             [] OTHER -> processPDF(f, filePath, oc1)
  IN IF d.category = "unsupported"
     THEN [r |-> Failure("Unsupported file type. Only images, videos, and PDFs are supported.",
                         fileName, "undefined"),
           fs |-> f, calls |-> << >>]
     ELSE [r |-> [x.r EXCEPT !.fileType = d.category, !.fileName = fileName],
           fs |-> x.fs, calls |-> x.calls]

routeFileCompression(f, filePath, opts, oc1, oc2) ==
  routeDetected(f, filePath, opts, oc1, oc2, detectFileCategory(f, filePath))

\* ------------------------------------------------------------ the batch
D == <<"d">>
InDir(name) == [dir |-> D, name |-> name]
Original(mime) == [mime |-> mime, size |-> SrcSize, data |-> "orig"]

\* the files on disk when the batch starts
InitFS ==
  (InDir(<<"a", "png">>) :> Original("image/png"))
  @@ (InDir(<<"a", "mp4">>) :> Original("video/mp4"))
  @@ (InDir(<<"a", "pdf">>) :> Original("application/pdf"))
  @@ (InDir(<<"a", "min", "pdf">>) :> Original("application/pdf"))
  @@ (InDir(<<"a", "txt">>) :> Original("none"))
  @@ (InDir(<<"a", "zip">>) :> Original("application/zip"))

\* the paths a caller may pass: the files above and one that does not exist
InputPaths == (DOMAIN InitFS) \cup {InDir(<<"gone", "png">>)}

SeqsUpTo(S, n) == UNION {[1..k -> S] : k \in 0..n}

\* the options the commands build: a preset is given exactly when resize is set
OptionSets ==
  {o \in [resize : BOOLEAN, compress : BOOLEAN,
           resizePreset : {NoPreset, Find(IMAGE_PRESETS, "Medium")}] :
     (o.resizePreset # NoPreset) = o.resize}

NoResult == Failure("", NoName, "undefined")

NoBatch ==
  [totalFiles |-> Undef, successCount |-> Undef, failureCount |-> Undef,
   totalOriginalSize |-> Undef, totalProcessedSize |-> Undef,
   results |-> << >>, errors |-> << >>]

NoResolve == [tool |-> "none", path |-> NoPath, hit |-> FALSE, before |-> NoPath]

NoDetection == [category |-> "none", mime |-> "none", sniffed |-> "none"]

\* a process that has resolved no tool yet, on a machine where the encoders
\* are installed on the PATH only
NoSummary == << >>
NoFrame == [iw |-> 0, ih |-> 0, preset |-> NoPreset, ow |-> 0, oh |-> 0]

\* no command has run
CommandIdle ==
  /\ titles = << >>
  /\ compressionMode = ""
  /\ summary = NoSummary
  /\ frame = NoFrame

LocatorFresh ==
  /\ platform = "darwin"
  /\ cachedFfmpegPath = NoPath
  /\ cachedGhostscriptPath = NoPath
  /\ resolved = NoResolve
  /\ detected = NoDetection

Init ==
  /\ LocatorFresh
  /\ CommandIdle
  /\ files \in SeqsUpTo(InputPaths, MaxFiles)
  /\ options \in OptionSets
  /\ outputFolderName \in {"", "Optimized"}
  /\ fs = InitFS
  /\ dirs = {D}
  /\ pc = "classify"
  /\ i = 1
  /\ result = NoResult
  /\ results = << >>
  /\ errors = << >>
  /\ successCount = 0
  /\ failureCount = 0
  /\ totalOriginalSize = 0
  /\ totalProcessedSize = 0
  /\ batch = NoBatch
  /\ calls = << >>
  /\ srcSize = Undef
  /\ guarded = {}
  /\ log = << >>

\* (a loop that stops one file short)
LoopCondOffByOne(k) == k < Len(files)

\* for (let i = 0; i < filePaths.length; i++), with i counted from 1
LoopCond(k) == k <= Len(files)

Event(k, ev) == [idx |-> k, ev |-> ev]

\* (a failure entry that drops the message)
ErrorEntryAnonymous(filePath, msg) == [file |-> filePath.name, error |-> ""]

ErrorEntry(filePath, msg) == [file |-> filePath.name, error |-> msg]

\* result.originalSize || 0
OrZero(n) == IF n = Undef THEN 0 ELSE n

\* ---------------------------------------------- processBatch, step by step
\* The loop body up to the type check: showToast, fileTypeFromFile and the
\* "Could not determine file type" branch; a throw lands in the catch block.
Classify ==
  /\ pc = "classify"
  /\ LoopCond(i)
  /\ LET filePath == files[i]
     IN IF ~Exists(fs, filePath)
        THEN /\ errors' = Append(errors, ErrorEntry(filePath, "ENOENT: no such file or directory, open"))
             /\ failureCount' = failureCount + 1
             /\ log' = log \o <<Event(i, "classify"), Event(i, "failed")>>
             /\ i' = i + 1
             /\ pc' = "classify"
        ELSE IF Sniff(fs, filePath) = "none"
        THEN /\ errors' = Append(errors, ErrorEntry(filePath, "Could not determine file type"))
             /\ failureCount' = failureCount + 1
             /\ log' = log \o <<Event(i, "classify"), Event(i, "failed")>>
             /\ i' = i + 1
             /\ pc' = "classify"
        ELSE /\ pc' = "transform"
             /\ log' = Append(log, Event(i, "classify"))
             /\ UNCHANGED <<errors, failureCount, i>>
  /\ UNCHANGED <<titles, compressionMode, summary, frame,
                 files, options, outputFolderName, fs, dirs, result, results,
                 successCount, totalOriginalSize, totalProcessedSize, batch,
                 calls, srcSize, guarded, platform, cachedFfmpegPath,
                 cachedGhostscriptPath, resolved, detected>>

\* the size guard applied: a successful PDF result whose output is its input
GuardedNow(r, filePath, f) ==
  IF r.success /\ r.fileType = "pdf" /\ r.outputPath = filePath
  THEN {[path |-> filePath, content |-> f[filePath]]}
  ELSE {}

\* each transform operation resolves its tool once before it starts it (and
\* again when it reports that the tool was not found, to the same result)
UsesFfmpeg(cs) == \E k \in 1..Len(cs) : cs[k].op # "compressPDF"
UsesGhostscript(cs) == \E k \in 1..Len(cs) : cs[k].op = "compressPDF"

\* (the state after routeFileCompression has returned x)
Settle(x) ==
  /\ result' = x.r
  /\ fs' = x.fs
  /\ calls' = x.calls
  /\ guarded' = guarded \cup GuardedNow(x.r, files[i], fs)
  /\ cachedFfmpegPath' =
       IF UsesFfmpeg(x.calls)
       THEN getFfmpegPath(fs, platform, cachedFfmpegPath, TRUE).cached
       ELSE cachedFfmpegPath
  /\ cachedGhostscriptPath' =
       IF UsesGhostscript(x.calls)
       THEN getGhostscriptPath(fs, platform, cachedGhostscriptPath).cached
       ELSE cachedGhostscriptPath

\* (an await that never settles)
RouteFileNeverSettles == pc = "transform" /\ UNCHANGED vars

\* the ways a second external process can end, when the pipeline starts one
SecondOutcomes(f, filePath, opts, oc1) ==
  IF Len(routeFileCompression(f, filePath, opts, oc1, oc1).calls) = 2
  THEN Outcomes ELSE {oc1}

\* const result = await routeFileCompression(filePath, options, pdfQuality,
\* progressCallback), each external process ending one of the ways it can
RouteFile ==
  /\ pc = "transform"
  /\ \E oc1 \in Outcomes :
     \E oc2 \in SecondOutcomes(fs, files[i], options, oc1) :
     \E x \in {routeFileCompression(fs, files[i], options, oc1, oc2)} :
       Settle(x)
  /\ srcSize' = fs[files[i]].size
  /\ log' = Append(log, Event(i, "transform"))
  /\ pc' = "place"
  /\ UNCHANGED <<titles, compressionMode, summary, frame,
                 files, options, outputFolderName, dirs, i, results, errors,
                 successCount, failureCount, totalOriginalSize,
                 totalProcessedSize, batch, platform, resolved, detected>>

\* (a destination that is the produced path itself: nothing is moved)
NewPathInPlace(filePath, outputPath, folder) == outputPath

\* const newPath = path.join(targetDir, path.basename(result.outputPath))
NewPath(filePath, outputPath, folder) ==
  [dir |-> JoinDir(filePath.dir, folder), name |-> outputPath.name]

\* results.push(result); successCount++; the two totals
\* (a success that falls through into the failure bookkeeping as well)
RecordSuccessFallsThrough(r) ==
  /\ results' = Append(results, r)
  /\ successCount' = successCount + 1
  /\ totalOriginalSize' = totalOriginalSize + OrZero(r.originalSize)
  /\ totalProcessedSize' = totalProcessedSize + OrZero(r.processedSize)
  /\ failureCount' = failureCount + 1
  /\ errors' = Append(errors, ErrorEntry(files[i], "Unknown error"))
  /\ log' = log \o <<Event(i, "place"), Event(i, "succeeded"), Event(i, "failed")>>

\* results.push(result); successCount++; the totals
RecordSuccess(r) ==
  /\ results' = Append(results, r)
  /\ successCount' = successCount + 1
  /\ totalOriginalSize' = totalOriginalSize + OrZero(r.originalSize)
  /\ totalProcessedSize' = totalProcessedSize + OrZero(r.processedSize)
  /\ log' = log \o <<Event(i, "place"), Event(i, "succeeded")>>
  /\ UNCHANGED <<errors, failureCount>>

\* (a failure whose sizes are added to the totals all the same)
RecordFailureAddsSizes(msg, events) ==
  /\ errors' = Append(errors, ErrorEntry(files[i], msg))
  /\ failureCount' = failureCount + 1
  /\ log' = log \o events
  /\ totalOriginalSize' = totalOriginalSize + OrZero(result.originalSize)
  /\ totalProcessedSize' = totalProcessedSize + OrZero(result.processedSize)
  /\ UNCHANGED <<results, successCount>>

\* failureCount++; errors.push(...), from the else branch or the catch block
RecordFailure(msg, events) ==
  /\ errors' = Append(errors, ErrorEntry(files[i], msg))
  /\ failureCount' = failureCount + 1
  /\ log' = log \o events
  /\ UNCHANGED <<results, successCount, totalOriginalSize, totalProcessedSize>>

\* The rest of the loop body: the output folder, the move, the bookkeeping.
\* renameSync throws when its source is gone, and may throw for a cause
\* outside the program (another volume, permissions).
PlaceAndRecord ==
  /\ pc = "place"
  /\ IF result.success /\ result.outputPath # NoPath
     THEN IF outputFolderName # ""
          THEN LET newPath == NewPath(files[i], result.outputPath, outputFolderName)
               IN /\ dirs' = dirs \cup {newPath.dir}
                  /\ IF newPath # result.outputPath
                     THEN \E renameThrows \in BOOLEAN :
                            IF renameThrows \/ ~Exists(fs, result.outputPath)
                            THEN /\ RecordFailure("rename failed",
                                                  <<Event(i, "place"), Event(i, "failed")>>)
                                 /\ UNCHANGED <<fs, result>>
                            ELSE /\ fs' = Rename(fs, result.outputPath, newPath)
                                 /\ result' = [result EXCEPT !.outputPath = newPath]
                                 /\ RecordSuccess(result')
                     ELSE /\ RecordSuccess(result)
                          /\ UNCHANGED <<fs, result>>
          ELSE /\ RecordSuccess(result)
               /\ UNCHANGED <<fs, dirs, result>>
     ELSE /\ RecordFailure(IF result.error = "" THEN "Unknown error" ELSE result.error,
                           <<Event(i, "failed")>>)
          /\ UNCHANGED <<fs, dirs, result>>
  /\ i' = i + 1
  /\ pc' = "classify"
  /\ UNCHANGED <<titles, compressionMode, summary, frame,
                 files, options, outputFolderName, batch, calls, srcSize, guarded,
                 platform, cachedFfmpegPath, cachedGhostscriptPath, resolved,
                 detected>>

\* return { totalFiles: filePaths.length, successCount, ... }
Return ==
  /\ pc = "classify"
  /\ ~LoopCond(i)
  /\ batch' = [totalFiles |-> Len(files), successCount |-> successCount,
               failureCount |-> failureCount,
               totalOriginalSize |-> totalOriginalSize,
               totalProcessedSize |-> totalProcessedSize,
               results |-> results, errors |-> errors]
  /\ pc' = "returned"
  /\ UNCHANGED <<titles, compressionMode, summary, frame,
                 files, options, outputFolderName, fs, dirs, i, result, results,
                 errors, successCount, failureCount, totalOriginalSize,
                 totalProcessedSize, calls, srcSize, guarded, log, platform,
                 cachedFfmpegPath, cachedGhostscriptPath, resolved, detected>>

Next == Classify \/ RouteFile \/ PlaceAndRecord \/ Return

Spec == Init /\ [][Next]_vars

TypeOK ==
  /\ pc \in {"classify", "transform", "place", "returned",
            "detect", "detected", "locator", "engine", "ran", "shown",
            "scale", "scaled", "command", "exit"}
  /\ i \in 1..(Len(files) + 1)
  /\ successCount = Len(results)

FairSpec == Spec /\ WF_vars(Next)

\* ------------------------------------- processBatch, the earlier variant
\* The variant that classifies by MIME type itself and calls the transform
\* operations directly.  One action is one iteration of its loop.

\* the if / else if chain over options.resize and options.compress; `none`
\* says that no branch was taken and result stayed null
LegacyTransform(f, filePath, isImage, opts, oc1, oc2) ==
  IF opts.resize /\ opts.compress
  THEN Only({IF x.r.success /\ x.r.outputPath # NoPath
             THEN LET c == IF isImage THEN compressImage(x.fs, x.r.outputPath, oc2)
                           ELSE compressVideo(x.fs, x.r.outputPath, oc2)
                  IN [none |-> FALSE, r |-> PropagateOriginalSize(x.r, c.r),
                      fs |-> c.fs, intermediateFiles |-> {x.r.outputPath}]
             ELSE [none |-> FALSE, r |-> x.r, fs |-> x.fs, intermediateFiles |-> {}] :
             x \in {IF isImage THEN resizeImage(f, filePath, oc1)
                    ELSE resizeVideo(f, filePath, oc1)}})
  ELSE IF opts.resize
  THEN LET x == IF isImage THEN resizeImage(f, filePath, oc1)
                ELSE resizeVideo(f, filePath, oc1)
       IN [none |-> FALSE, r |-> x.r, fs |-> x.fs, intermediateFiles |-> {}]
  ELSE IF opts.compress
  THEN LET x == IF isImage THEN compressImage(f, filePath, oc1)
                ELSE compressVideo(f, filePath, oc1)
       IN [none |-> FALSE, r |-> x.r, fs |-> x.fs, intermediateFiles |-> {}]
  ELSE [none |-> TRUE, r |-> NoResult, fs |-> f, intermediateFiles |-> {}]

\* for (const tempFile of intermediateFiles)
\*   if (fs.existsSync(tempFile) && tempFile !== finalPath) fs.unlinkSync(tempFile)
LegacyCleanup(f, intermediateFiles, finalPath) ==
  [q \in (DOMAIN f) \ (intermediateFiles \ {finalPath}) |-> f[q]]

LegacySecondOutcomes(f, filePath, isImage, opts, oc1) ==
  IF LegacyTransform(f, filePath, isImage, opts, oc1, oc1).intermediateFiles # {}
  THEN Outcomes ELSE {oc1}

\* (the rest of the loop body, once the transformation has returned x)
LegacyRecord(filePath, x) ==
  LET newPath == NewPath(filePath, x.r.outputPath, outputFolderName)
  IN IF x.none
     THEN \* result is null: neither branch of the bookkeeping runs
          /\ log' = log \o <<Event(i, "classify"), Event(i, "transform")>>
          /\ UNCHANGED <<fs, dirs, result, results, errors, successCount,
                         failureCount, totalOriginalSize, totalProcessedSize>>
     ELSE IF ~(x.r.success /\ x.r.outputPath # NoPath)
     THEN /\ RecordFailure(IF x.r.error = "" THEN "Unknown error" ELSE x.r.error,
                           <<Event(i, "classify"), Event(i, "transform"),
                             Event(i, "failed")>>)
          /\ fs' = x.fs
          /\ result' = x.r
          /\ UNCHANGED dirs
     ELSE IF outputFolderName # "" /\ newPath # x.r.outputPath
     THEN /\ dirs' = dirs \cup {newPath.dir}
          /\ \E renameThrows \in BOOLEAN :
               IF renameThrows \/ ~Exists(x.fs, x.r.outputPath)
               THEN /\ RecordFailure("rename failed",
                                     <<Event(i, "classify"), Event(i, "transform"),
                                       Event(i, "place"), Event(i, "failed")>>)
                    /\ fs' = x.fs
                    /\ result' = x.r
               ELSE /\ fs' = LegacyCleanup(Rename(x.fs, x.r.outputPath, newPath),
                                           x.intermediateFiles, newPath)
                    /\ result' = [x.r EXCEPT !.outputPath = newPath]
                    /\ RecordSuccess(result')
     ELSE /\ dirs' = IF outputFolderName # "" THEN dirs \cup {newPath.dir} ELSE dirs
          /\ fs' = LegacyCleanup(x.fs, x.intermediateFiles, x.r.outputPath)
          /\ result' = x.r
          /\ RecordSuccess(x.r)

LegacyIteration ==
  /\ pc = "classify"
  /\ LoopCond(i)
  /\ LET filePath == files[i]
     IN IF ~Exists(fs, filePath)
        THEN /\ RecordFailure("ENOENT: no such file or directory, open",
                              <<Event(i, "classify"), Event(i, "failed")>>)
             /\ UNCHANGED <<fs, dirs, result>>
        ELSE IF Sniff(fs, filePath) = "none"
        THEN /\ RecordFailure("Could not determine file type",
                              <<Event(i, "classify"), Event(i, "failed")>>)
             /\ UNCHANGED <<fs, dirs, result>>
        ELSE IF ~IsImageMime(Sniff(fs, filePath)) /\ ~IsVideoMime(Sniff(fs, filePath))
        THEN /\ RecordFailure("Unsupported file type: " \o Sniff(fs, filePath),
                              <<Event(i, "classify"), Event(i, "failed")>>)
             /\ UNCHANGED <<fs, dirs, result>>
        ELSE \E oc1 \in Outcomes :
             \E oc2 \in LegacySecondOutcomes(fs, filePath, IsImageMime(Sniff(fs, filePath)),
                                             options, oc1) :
               LegacyRecord(filePath,
                            LegacyTransform(fs, filePath, IsImageMime(Sniff(fs, filePath)),
                                            options, oc1, oc2))
  /\ cachedFfmpegPath' =
       IF /\ Exists(fs, files[i])
          /\ IsImageMime(Sniff(fs, files[i])) \/ IsVideoMime(Sniff(fs, files[i]))
          /\ options.resize \/ options.compress
       THEN getFfmpegPath(fs, platform, cachedFfmpegPath, TRUE).cached
       ELSE cachedFfmpegPath
  /\ i' = i + 1
  /\ pc' = "classify"
  /\ UNCHANGED <<titles, compressionMode, summary, frame,
                 files, options, outputFolderName, batch, calls, srcSize, guarded,
                 platform, cachedGhostscriptPath, resolved, detected>>

NextLegacy == LegacyIteration \/ Return

SpecLegacy == Init /\ [][NextLegacy]_vars

\* C1: the counts of the returned BatchResult add up to the number of input
\* paths.
C1_CountsAddUp ==
  pc = "returned" =>
    /\ batch.totalFiles = Len(files)
    /\ batch.successCount + batch.failureCount = batch.totalFiles

\* ------------------------------------------------ the classifier, alone
\* no batch is running
BatchIdle ==
  /\ options = [resize |-> FALSE, compress |-> FALSE, resizePreset |-> NoPreset]
  /\ outputFolderName = ""
  /\ dirs = {D}
  /\ i = 1
  /\ result = NoResult
  /\ results = << >>
  /\ errors = << >>
  /\ successCount = 0
  /\ failureCount = 0
  /\ totalOriginalSize = 0
  /\ totalProcessedSize = 0
  /\ batch = NoBatch
  /\ calls = << >>
  /\ srcSize = Undef
  /\ guarded = {}
  /\ log = << >>

\* the file names and the sniffing results detectFileCategory is tried on
ClassifierNames ==
  {<<"a", "png">>, <<"a", "jpg">>, <<"a", "mp4">>, <<"a", "pdf">>,
   <<"a", "PDF">>, <<"a", "txt">>, <<"a">>}

SniffResults ==
  {"image/png", "image/jpeg", "video/mp4", "video/webm", "application/pdf",
   "application/zip", "none"}

\* one file of any of the names with any of the contents, or a path that
\* cannot be read
InitClassifier ==
  /\ LocatorFresh
  /\ CommandIdle
  /\ BatchIdle
  /\ \E name \in ClassifierNames :
       /\ files = <<InDir(name)>>
       /\ \/ fs = << >>
          \/ \E mime \in SniffResults : fs = (InDir(name) :> Original(mime))
  /\ pc = "detect"

\* const { category, mime } = await detectFileCategory(filePath)
DetectFileCategory ==
  /\ pc = "detect"
  /\ detected' = [category |-> detectFileCategory(fs, files[1]).category,
                  mime |-> detectFileCategory(fs, files[1]).mime,
                  sniffed |-> IF Exists(fs, files[1]) THEN Sniff(fs, files[1])
                              ELSE "error"]
  /\ pc' = "detected"
  /\ UNCHANGED <<titles, compressionMode, summary, frame,
                 files, options, outputFolderName, fs, dirs, i, result, results,
                 errors, successCount, failureCount, totalOriginalSize,
                 totalProcessedSize, batch, calls, srcSize, guarded, log,
                 platform, cachedFfmpegPath, cachedGhostscriptPath, resolved>>

NextClassifier == DetectFileCategory

SpecClassifier == InitClassifier /\ [][NextClassifier]_vars

\* the category the content of each MIME type calls for
CategoryOfMime ==
  [m \in SniffResults \ {"none"} |->
     CASE m \in {"image/png", "image/jpeg"} -> "image"
       [] m \in {"video/mp4", "video/webm"} -> "video"
       [] m = "application/pdf" -> "pdf"
       [] OTHER -> "unsupported"]

\* C15: detectFileCategory decides by the sniffed content whatever the
\* extension; it looks at the extension only when sniffing matches nothing,
\* where .pdf (in any case) gives PDF and anything else Unsupported; a
\* sniffing error gives Unsupported.
C15_ContentDecides ==
  pc = "detected" =>
    LET name == files[1].name
    IN /\ detected.category \in {"image", "video", "pdf", "unsupported"}
       /\ detected.sniffed \in SniffResults \ {"none"} =>
            /\ detected.category = CategoryOfMime[detected.sniffed]
            /\ detected.mime = detected.sniffed
       /\ detected.sniffed = "none" =>
            detected.category =
              IF Len(name) > 1 /\ name[Len(name)] \in {"pdf", "PDF"}
              THEN "pdf" ELSE "unsupported"
       /\ detected.sniffed = "error" => detected.category = "unsupported"

\* a PNG image that carries the extension .pdf
C15_Witness ==
  /\ pc = "detected" /\ files[1].name = <<"a", "pdf">>
  /\ detected.sniffed = "image/png" /\ detected.category = "image"

\* ------------------------------------- processBatch on files of any type
\* The current processBatch on a folder that holds, beside an image, a PDF
\* and an archive, two files whose content matches no signature.
MaxTypedFiles == 3

TypedFS ==
  (InDir(<<"a", "png">>) :> Original("image/png"))
  @@ (InDir(<<"scan", "pdf">>) :> Original("none"))
  @@ (InDir(<<"notes", "txt">>) :> Original("none"))
  @@ (InDir(<<"a", "zip">>) :> Original("application/zip"))

InitTyped ==
  /\ LocatorFresh
  /\ CommandIdle
  /\ files \in SeqsUpTo((DOMAIN TypedFS) \cup {InDir(<<"gone", "png">>)}, MaxTypedFiles)
  /\ options \in OptionSets
  /\ outputFolderName = ""
  /\ fs = TypedFS
  /\ dirs = {D}
  /\ pc = "classify"
  /\ i = 1
  /\ result = NoResult
  /\ results = << >>
  /\ errors = << >>
  /\ successCount = 0
  /\ failureCount = 0
  /\ totalOriginalSize = 0
  /\ totalProcessedSize = 0
  /\ batch = NoBatch
  /\ calls = << >>
  /\ srcSize = Undef
  /\ guarded = {}
  /\ log = << >>

SpecTyped == InitTyped /\ [][Next]_vars

\* C16: processBatch processes every file the classifier does not call
\* Unsupported (a .pdf whose content matches no signature among them): it
\* records no failure for the file's type and hands it to the orchestrator.
C16_BatchFollowsClassifier ==
  [][(pc = "classify" /\ LoopCond(i)
        /\ detectFileCategory(fs, files[i]).category # "unsupported") =>
       (pc' = "transform" /\ errors' = errors)]_vars

\* ---------------------------------------------------- the locator, alone
\* Resolve calls, from whichever transform operation makes them, interleaved
\* with executables being installed and removed.

Range(seq) == {seq[k] : k \in 1..Len(seq)}

\* the places a tool of the platform may lie at
FfmpegFiles(p) ==
  Range(searchPaths(p)) \cup {ffmpegAssetPath(p)}
    \cup (IF isWindows(p) THEN {} ELSE Range(systemPaths))

GhostscriptFiles(p) ==
  (IF isWindows(p) THEN {gsPath(v) : v \in Range(versions)} ELSE Range(unixPaths))
    \cup {gsAssetPath(p)}

ToolFiles(p) == FfmpegFiles(p) \cup GhostscriptFiles(p)

Executable == [mime |-> "application/x-executable", size |-> SrcSize, data |-> "exe"]

InitLocator ==
  /\ BatchIdle
  /\ CommandIdle
  /\ files = << >>
  /\ pc = "locator"
  /\ platform \in Platforms
  /\ \E present \in SUBSET ToolFiles(platform) : fs = [q \in present |-> Executable]
  /\ cachedFfmpegPath = NoPath
  /\ cachedGhostscriptPath = NoPath
  /\ resolved = NoResolve
  /\ detected = NoDetection

FileAppears ==
  /\ pc = "locator"
  /\ \E q \in ToolFiles(platform) \ DOMAIN fs : fs' = WriteFile(fs, q, Executable)
  /\ resolved' = NoResolve
  /\ UNCHANGED <<titles, compressionMode, summary, frame,
                 files, options, outputFolderName, dirs, pc, i, result, results,
                 errors, successCount, failureCount, totalOriginalSize,
                 totalProcessedSize, batch, calls, srcSize, guarded, log,
                 platform, cachedFfmpegPath, cachedGhostscriptPath, detected>>

FileDisappears ==
  /\ pc = "locator"
  /\ \E q \in DOMAIN fs : fs' = Unlink(fs, q)
  /\ resolved' = NoResolve
  /\ UNCHANGED <<titles, compressionMode, summary, frame,
                 files, options, outputFolderName, dirs, pc, i, result, results,
                 errors, successCount, failureCount, totalOriginalSize,
                 totalProcessedSize, batch, calls, srcSize, guarded, log,
                 platform, cachedFfmpegPath, cachedGhostscriptPath, detected>>

\* const ffmpegPath = getFfmpegPath()
ResolveFfmpeg ==
  /\ pc = "locator"
  /\ \E requireOk \in BOOLEAN :
       LET x == getFfmpegPath(fs, platform, cachedFfmpegPath, requireOk)
       IN /\ cachedFfmpegPath' = x.cached
          /\ resolved' = [tool |-> "ffmpeg", path |-> x.path, hit |-> x.hit,
                          before |-> cachedFfmpegPath]
  /\ UNCHANGED <<titles, compressionMode, summary, frame,
                 files, options, outputFolderName, fs, dirs, pc, i, result,
                 results, errors, successCount, failureCount, totalOriginalSize,
                 totalProcessedSize, batch, calls, srcSize, guarded, log,
                 platform, cachedGhostscriptPath, detected>>

\* const gsPath = getGhostscriptPath()
ResolveGhostscript ==
  /\ pc = "locator"
  /\ LET x == getGhostscriptPath(fs, platform, cachedGhostscriptPath)
     IN /\ cachedGhostscriptPath' = x.cached
        /\ resolved' = [tool |-> "gs", path |-> x.path, hit |-> x.hit,
                        before |-> cachedGhostscriptPath]
  /\ UNCHANGED <<titles, compressionMode, summary, frame,
                 files, options, outputFolderName, fs, dirs, pc, i, result,
                 results, errors, successCount, failureCount, totalOriginalSize,
                 totalProcessedSize, batch, calls, srcSize, guarded, log,
                 platform, cachedFfmpegPath, detected>>

NextLocator == FileAppears \/ FileDisappears \/ ResolveFfmpeg \/ ResolveGhostscript

SpecLocator == InitLocator /\ [][NextLocator]_vars

\* a resolve call has just returned (the disk is as the call saw it)
Resolved == resolved.tool # "none"

\* the bare executable name of the tool just resolved
BareOfResolved ==
  IF resolved.tool = "ffmpeg" THEN [dir |-> << >>, name |-> <<"ffmpeg">>]
  ELSE IF platform = "win32" THEN [dir |-> << >>, name |-> <<"gswin64c", "exe">>]
  ELSE [dir |-> << >>, name |-> <<"gs">>]

\* the cache of the tool just resolved
CacheOfResolved ==
  IF resolved.tool = "ffmpeg" THEN cachedFfmpegPath ELSE cachedGhostscriptPath

\* C18: a resolve call always returns a value, never the empty string:
\* either a path that exists on the disk the call looked at, or the bare
\* executable name.
C18_ResolveNeverFails ==
  Resolved =>
    /\ resolved.path # NoPath
    /\ Exists(fs, resolved.path) \/ resolved.path = BareOfResolved

\* nothing installed in any place the Ghostscript search looks at
C18_Witness ==
  /\ Resolved /\ resolved.tool = "gs" /\ platform = "win32"
  /\ resolved.path = BareOfResolved
  /\ GhostscriptFiles(platform) \cap DOMAIN fs = {}

\* the places each search looks at, best first
PriorityOrder ==
  IF resolved.tool = "ffmpeg"
  THEN <<[dir |-> <<"cwd", "node_modules", "ffmpeg-static">>, name |-> ffmpegExe(platform)],
         [dir |-> <<"ext", "node_modules", "ffmpeg-static">>, name |-> ffmpegExe(platform)],
         [dir |-> <<"ext", "assets">>, name |-> ffmpegExe(platform)]>>
       \o (IF platform = "darwin"
           THEN <<[dir |-> <<"opt", "homebrew", "bin">>, name |-> <<"ffmpeg">>]>>
           ELSE << >>)
  ELSE IF platform = "win32"
  THEN <<gsPath("gs9.56.1"), gsPath("gs10.04.0"),
         [dir |-> <<"ext", "assets">>, name |-> <<"gswin64c", "exe">>]>>
  ELSE <<[dir |-> <<"opt", "homebrew", "bin">>, name |-> <<"gs">>],
         [dir |-> <<"usr", "bin">>, name |-> <<"gs">>],
         [dir |-> <<"ext", "assets">>, name |-> <<"gs">>]>>

\* p is what a search from scratch finds on the disk
FreshlyFound(p) ==
  \/ /\ p = BareOfResolved
     /\ \A k \in 1..Len(PriorityOrder) : ~Exists(fs, PriorityOrder[k])
  \/ \E k \in 1..Len(PriorityOrder) :
       /\ p = PriorityOrder[k]
       /\ Exists(fs, p)
       /\ \A j \in 1..(k - 1) : ~Exists(fs, PriorityOrder[j])

\* C19: a resolve call returns its cached path only when that path exists;
\* when the cached path is gone the call searches from scratch, returns what
\* the search finds and caches it.
C19_StaleCacheResearched ==
  Resolved =>
    /\ resolved.hit => (resolved.path = resolved.before /\ Exists(fs, resolved.path))
    /\ (resolved.before # NoPath /\ ~Exists(fs, resolved.before)) =>
         /\ ~resolved.hit
         /\ FreshlyFound(resolved.path)
         /\ CacheOfResolved = resolved.path

\* the cached FFmpeg was removed and the search found another copy
C19_Witness ==
  /\ Resolved /\ resolved.tool = "ffmpeg"
  /\ resolved.before # NoPath /\ resolved.before # BareOfResolved
  /\ ~Exists(fs, resolved.before)
  /\ Exists(fs, resolved.path) /\ cachedFfmpegPath = resolved.path

\* C20: once a resolve call has populated the cache of a tool, no later
\* resolve call of that tool writes the cache.
C20_CacheWrittenOnce ==
  (Resolved /\ resolved.before # NoPath) => resolved.hit

\* the files of the batch the classifier calls Unsupported (no step of the
\* batch writes or removes such a file, so the disk at any time tells)
Unsupported == {k \in 1..Len(files) : detectFileCategory(fs, files[k]).category = "unsupported"}

\* the failure entries recorded for the k-th file
ErrorsOf(k) ==
  {n \in 1..Len(errors) :
     n <= Len(SelectSeq(log, LAMBDA e : e.ev = "failed"))
     /\ SelectSeq(log, LAMBDA e : e.ev = "failed")[n].idx = k}

NamesMime(msg, mime) ==
  msg \in {"Unsupported file type: " \o mime,
           "Unsupported file type: " \o mime \o ". Only images, videos, and PDFs are supported."}

OrchestratorReturned == pc = "place"

IsResize(op) == op \in {"resizeImage", "resizeVideo"}
IsCompress(op) == op \in {"compressImage", "compressVideo"}

\* the resize-and-compress pipeline was selected for files[i]
TwoStageSelected ==
  /\ OrchestratorReturned
  /\ result.fileType \in {"image", "video"}
  /\ options.resize /\ options.compress /\ options.resizePreset # NoPreset

\* the orchestrator's result is the transform result r, with the two fields
\* routeFileCompression fills in
SameResult(r) == result = [r EXCEPT !.fileType = result.fileType, !.fileName = result.fileName]

\* C2: a successful PDF compression never reports more bytes than it read;
\* when the optimizer's output is not strictly smaller than the input, the
\* optimized file is gone and the result is a success whose output is the
\* input path, with processedSize equal to originalSize.
C2_PdfSizeGuard ==
  (OrchestratorReturned /\ result.fileType = "pdf") =>
    LET oc == calls[1].oc
        optimized == OutputPathFor(files[i], <<"min", "pdf">>)
    IN /\ result.success =>
            /\ result.processedSize # Undef
            /\ result.originalSize = srcSize
            /\ result.processedSize <= result.originalSize
       /\ (oc.kind = "ok" /\ oc.size >= srcSize) =>
            /\ result.success
            /\ result.outputPath = files[i]
            /\ result.processedSize = result.originalSize
            /\ ~Exists(fs, optimized)

C2_Witness ==
  /\ OrchestratorReturned /\ result.fileType = "pdf" /\ result.success
  /\ calls[1].oc.kind = "ok" /\ calls[1].oc.size = srcSize
  /\ result.outputPath = files[i]

\* C3: a PDF the size guard applied to is still at its path, with the content
\* it had, when processBatch returns.
C3_GuardedOriginalKept ==
  pc = "returned" =>
    \A g \in guarded : Exists(fs, g.path) /\ fs[g.path] = g.content

\* C4: a successful result names an output path that exists, when the
\* orchestrator returns it and for every entry of results when processBatch
\* returns.
C4_AtOrchestratorReturn ==
  (OrchestratorReturned /\ result.success) =>
    result.outputPath # NoPath /\ Exists(fs, result.outputPath)

C4_AtBatchReturn ==
  pc = "returned" =>
    \A k \in 1..Len(batch.results) :
      /\ batch.results[k].outputPath # NoPath
      /\ Exists(fs, batch.results[k].outputPath)

C4_SuccessOutputExists == C4_AtOrchestratorReturn /\ C4_AtBatchReturn

\* C5: a file that fails gets exactly one failure entry, in input order, and
\* every file of the list is visited whatever happened to the files before it.
EventsOf(ev) == SelectSeq(log, LAMBDA e : e.ev = ev)
Terminal(k) == {n \in 1..Len(log) : log[n].idx = k /\ log[n].ev \in {"failed", "succeeded"}}

C5_FailureIsolated ==
  /\ Len(errors) = Len(EventsOf("failed"))
  /\ \A n \in 1..Len(errors) : errors[n].file = files[EventsOf("failed")[n].idx].name
  /\ \A k \in 1..Len(files) : Cardinality(Terminal(k)) <= 1
  /\ pc = "returned" =>
       /\ \A k \in 1..Len(files) :
            /\ \E n \in 1..Len(log) : log[n] = Event(k, "classify")
            /\ Cardinality(Terminal(k)) = 1
       /\ Len(batch.errors) = Cardinality({k \in 1..Len(files) :
                                \E n \in Terminal(k) : log[n].ev = "failed"})
       /\ Len(batch.errors) + Len(batch.results) = Len(files)

\* the first file fails while its output is being placed, the second succeeds
C5_Witness ==
  /\ pc = "returned" /\ Len(files) = 2
  /\ Len(batch.errors) = 1 /\ batch.errors[1].error = "rename failed"
  /\ Terminal(1) # {} /\ \A n \in Terminal(1) : log[n].ev = "failed"
  /\ batch.successCount = 1

\* C6: processBatch returns for every input list, provided every step that
\* can be taken eventually is.
C6_Terminates == <>(pc = "returned")

C6_Witness ==
  /\ pc = "returned" /\ Len(files) = MaxFiles
  /\ batch.failureCount = Len(files)

\* C7: in the resize-and-compress pipeline the first call is the resize of
\* the file; compress runs only when that resize succeeded, on exactly the
\* resize output; a failed resize is returned as it is, with no other call.
C7_CompressAfterResize ==
  TwoStageSelected =>
    /\ Len(calls) >= 1
    /\ IsResize(calls[1].op) /\ calls[1].input = files[i]
    /\ calls[1].r.success =>
         /\ Len(calls) = 2
         /\ IsCompress(calls[2].op)
         /\ calls[2].input = calls[1].r.outputPath
    /\ ~calls[1].r.success =>
         /\ Len(calls) = 1
         /\ SameResult(calls[1].r)

C7_Witness ==
  /\ TwoStageSelected /\ Len(calls) = 2 /\ calls[2].r.success
  /\ result.fileType = "video"

\* C8: a successful resize-then-compress result reports the size of the
\* source file, not the size of the intermediate resized file.
C8_OriginalSizeIsSource ==
  (TwoStageSelected /\ result.success) => result.originalSize = srcSize

C8_Witness ==
  /\ TwoStageSelected /\ result.success
  /\ calls[1].r.processedSize # srcSize

\* C9: after a resize-and-compress pipeline whose resize succeeded, the
\* intermediate file is gone unless it is the final output.
C9_IntermediateRemoved ==
  (TwoStageSelected /\ calls[1].r.success) =>
    \/ calls[1].r.outputPath = result.outputPath
    \/ ~Exists(fs, calls[1].r.outputPath)

\* C10: with neither resize nor compress requested, a file of a supported
\* category gets no transform call and a failed result.
C10_NoOptionsRejected ==
  (OrchestratorReturned /\ ~options.resize /\ ~options.compress
     /\ result.fileType \in {"image", "video", "pdf"}) =>
    calls = << >> /\ ~result.success

\* the file a transform operation is expected to write
OutputSuffix(op) ==
  CASE op = "resizeImage" -> <<"resized", "webp">>
    [] op = "resizeVideo" -> <<"resized", "mp4">>
    [] op = "compressImage" -> <<"min", "webp">>
    [] op = "compressVideo" -> <<"min", "mp4">>
    [] op = "compressPDF" -> <<"min", "pdf">>

ExpectedOutput(call) == OutputPathFor(call.input, OutputSuffix(call.op))

\* C11: a transform operation whose external process exits without error
\* and leaves no file at the expected output path returns a failed result
\* with no outputPath.  (A process that writes nothing leaves the disk as the
\* pipeline found it, and a resize never writes where the compress after it
\* does, so the path is looked up on the disk the pipeline started from.)
C11_MissingOutputFails ==
  [][(pc = "transform" /\ pc' = "place") =>
       \A k \in 1..Len(calls') :
         (calls'[k].oc.kind = "noout" /\ ~Exists(fs, ExpectedOutput(calls'[k]))) =>
           /\ ~calls'[k].r.success
           /\ calls'[k].r.outputPath = NoPath]_vars

\* a video whose resize wrote its output and whose compress wrote nothing
C11_Witness ==
  /\ OrchestratorReturned /\ Len(calls) = 2
  /\ calls[2].op = "compressVideo" /\ calls[2].oc.kind = "noout"
  /\ ~Exists(fs, ExpectedOutput(calls[2]))
  /\ ~result.success /\ result.outputPath = NoPath
  /\ result.error = "Output file not created. FFmpeg stderr"

\* C12: a successful result of the orchestrator carries a processedSize, and
\* it is the size of the file at outputPath.
C12_ProcessedSizeIsOutputSize ==
  (OrchestratorReturned /\ result.success) =>
    /\ Exists(fs, result.outputPath)
    /\ result.processedSize = fs[result.outputPath].size

\* the sum over a list of results of one of their size fields, a result
\* without the field adding nothing
RECURSIVE SumOf(_, _)
SumOf(rs, field) ==
  IF rs = << >> THEN 0
  ELSE (IF Head(rs)[field] = Undef THEN 0 ELSE Head(rs)[field]) + SumOf(Tail(rs), field)

\* C13: the two totals of a BatchResult are the sums of originalSize and of
\* processedSize over its results, which are the successes only; a file
\* recorded as a failure adds to neither.
C13_TotalsAreSums ==
  pc = "returned" =>
    /\ batch.totalOriginalSize = SumOf(batch.results, "originalSize")
    /\ batch.totalProcessedSize = SumOf(batch.results, "processedSize")
    /\ Len(batch.results) = batch.successCount
    /\ \A k \in 1..Len(batch.results) : batch.results[k].success

\* one success with both sizes and one file that failed after its transform
\* had produced sizes
C13_Witness ==
  /\ pc = "returned" /\ Len(batch.results) = 1 /\ batch.failureCount = 1
  /\ batch.errors[1].error = "rename failed"
  /\ batch.totalOriginalSize = SrcSize
  /\ batch.totalProcessedSize = SrcSize - 1

\* the file whose success was recorded by the step just taken, if any
JustSucceeded == Len(log) > 0 /\ log[Len(log)].ev = "succeeded"

AssetOfResolved ==
  IF resolved.tool = "ffmpeg" THEN ffmpegAssetPath(platform) ELSE gsAssetPath(platform)

\* the places the search of the tool just resolved looks at before the asset
RankedAboveAsset ==
  {PriorityOrder[k] : k \in {j \in 1..Len(PriorityOrder) :
                               \A h \in 1..j : PriorityOrder[h] # AssetOfResolved}}

MaxNameLen == 3

NameParts == {"a", "min", "resized", "webp", "pdf", "PDF"}

EngineNames == UNION {[1..n -> NameParts] : n \in 1..MaxNameLen}

Operations == {"resizeImage", "resizeVideo", "compressImage", "compressVideo", "compressPDF"}

\* the operation called as the orchestrator calls it
Apply(op, f, inputPath, oc) ==
  CASE op = "resizeImage" -> resizeImage(f, inputPath, oc)
    [] op = "resizeVideo" -> resizeVideo(f, inputPath, oc)
    [] op = "compressImage" -> compressImage(f, inputPath, oc)
    [] op = "compressVideo" -> compressVideo(f, inputPath, oc)
    [] OTHER -> compressPDF(f, inputPath, oc)

\* FFmpeg and Ghostscript as Homebrew installs them
HomebrewTools == {systemPaths[1], unixPaths[1]}

InitEngine ==
  /\ BatchIdle
  /\ CommandIdle
  /\ \E name \in EngineNames : files = <<InDir(name)>>
  /\ \E inputs \in {{files[1]}, {}}, tools \in {HomebrewTools, {}} :
       fs = [q \in inputs \cup tools |->
               IF q \in tools THEN Executable ELSE Original("none")]
  /\ pc = "engine"
  /\ platform \in Platforms
  /\ cachedFfmpegPath = NoPath
  /\ cachedGhostscriptPath = NoPath
  /\ resolved = NoResolve
  /\ detected = NoDetection

\* await <operation>(inputPath, preset, progressCallback), the external
\* process ending one of the ways it can
RunTransform ==
  /\ pc = "engine"
  /\ \E op \in Operations, oc \in Outcomes :
       LET out == Apply(op, fs, files[1], oc)
           preset == IF op \in {"resizeImage", "resizeVideo"}
                     THEN Find(IMAGE_PRESETS, "Medium") ELSE NoPreset
       IN /\ fs' = out.fs
          /\ calls' = <<Call(op, files[1], preset, out, oc)>>
          /\ cachedFfmpegPath' =
               IF op # "compressPDF"
               THEN getFfmpegPath(fs, platform, cachedFfmpegPath, TRUE).cached
               ELSE cachedFfmpegPath
          /\ cachedGhostscriptPath' =
               IF op = "compressPDF"
               THEN getGhostscriptPath(fs, platform, cachedGhostscriptPath).cached
               ELSE cachedGhostscriptPath
  /\ srcSize' = IF Exists(fs, files[1]) THEN fs[files[1]].size ELSE Undef
  /\ pc' = "ran"
  /\ UNCHANGED <<titles, compressionMode, summary, frame,
                 files, options, outputFolderName, dirs, i, result, results,
                 errors, successCount, failureCount, totalOriginalSize,
                 totalProcessedSize, batch, guarded, log, platform, resolved,
                 detected>>

NextEngine == RunTransform

SpecEngine == InitEngine /\ [][NextEngine]_vars

\* a transform operation has just returned
Ran == pc = "ran"

\* C22: the path a transform operation writes to differs from its input
\* path for every file name: the input is on disk afterwards with the
\* content it had, and when the external process did its work the operation
\* succeeds with a file at that other path, also for a name that already
\* carries the operation's suffix.
C22_OutputDiffersFromInput ==
  Ran =>
    LET c == calls[1]
    IN /\ ExpectedOutput(c) # c.input
       /\ srcSize # Undef => (Exists(fs, c.input) /\ fs[c.input] = Original("none"))
       /\ (srcSize # Undef /\ c.oc.kind = "ok") =>
            /\ c.r.success
            /\ c.r.outputPath \in {ExpectedOutput(c), c.input}
            /\ c.r.outputPath = c.input => c.op = "compressPDF"
            /\ c.r.outputPath # c.input => Exists(fs, ExpectedOutput(c))

\* compress-only on a.min.webp wrote a.min.min.webp
C22_Witness ==
  /\ Ran /\ calls[1].op = "compressImage"
  /\ calls[1].input = InDir(<<"a", "min", "webp">>)
  /\ calls[1].r.success
  /\ calls[1].r.outputPath = InDir(<<"a", "min", "min", "webp">>)
  /\ Exists(fs, calls[1].input) /\ Exists(fs, calls[1].r.outputPath)

\* ------------------------------------------------------ the batch summary
\* const k = 1024
kilo == 1024

RECURSIVE Pow(_, _)
Pow(b, e) == IF e = 0 THEN 1 ELSE b * Pow(b, e - 1)

\* Math.floor(Math.log(bytes) / Math.log(k)) for bytes >= 1
RECURSIVE FloorLog(_)
FloorLog(bytes) == IF bytes < kilo THEN 0 ELSE 1 + FloorLog(bytes \div kilo)

\* x.toFixed(1) of the non-negative quotient num / den: the nearest tenth
ToFixed1(num, den) ==
  LET tenths == (20 * num + den) \div (2 * den)
  IN ToString(tenths \div 10) \o "." \o ToString(tenths % 10)

\* const sizes = ["B", "KB", "MB", "GB"]; sizes[i] of an index that is in
\* the array, undefined otherwise
sizes == <<"B", "KB", "MB", "GB">>

\* formatBytes(bytes): the number and the unit of `${number} ${sizes[i]}`.
\* Math.log of a negative number is NaN, and so are the index and the
\* quotient computed from it.
formatBytes(bytes) ==
  IF bytes = 0 THEN [number |-> "0", unit |-> "B"]
  ELSE IF bytes < 0 THEN [number |-> "NaN", unit |-> "undefined"]
  ELSE LET n == FloorLog(bytes)
       IN [number |-> ToFixed1(bytes, Pow(kilo, n)),
           unit |-> IF n + 1 \in DOMAIN sizes THEN sizes[n + 1] ELSE "undefined"]

\* ((1 - totalProcessedSize / totalOriginalSize) * 100).toFixed(1), "0" when
\* totalOriginalSize is 0
Savings(original, processed) ==
  IF original > 0
  THEN IF processed <= original
       THEN ToFixed1(100 * (original - processed), original)
       ELSE "-" \o ToFixed1(100 * (processed - original), original)
  ELSE "0"

\* one line of the summary text
Line(kind, count, amount, savings) ==
  [kind |-> kind, count |-> count, amount |-> amount, savings |-> savings]

NoAmount == [number |-> "", unit |-> ""]

\* operationName.toLowerCase(), of the names the commands pass
LowerCase(operationName) ==
  CASE operationName = "Optimized" -> "optimized"
    [] operationName = "Optimized (Max)" -> "optimized (max)"
    [] operationName = "Optimized (Min)" -> "optimized (min)"
    [] OTHER -> operationName

\* (a summary that shows the saved bytes whenever there was something to
\* save from)
generateBatchSummaryAnyOriginal(b, operationName) ==
  IF b.successCount = 0
  THEN <<Line("Failed to " \o LowerCase(operationName), b.totalFiles, NoAmount, "")>>
  ELSE <<Line(operationName, b.successCount, NoAmount, "")>>
       \o (IF b.totalOriginalSize > 0
           THEN <<Line("Saved", 0,
                       formatBytes(b.totalOriginalSize - b.totalProcessedSize),
                       Savings(b.totalOriginalSize, b.totalProcessedSize))>>
           ELSE << >>)
       \o (IF b.failureCount > 0
           THEN <<Line("failed", b.failureCount, NoAmount, "")>> ELSE << >>)

\* generateBatchSummary(result, operationName): the lines of the text
generateBatchSummary(b, operationName) ==
  IF b.successCount = 0
  THEN <<Line("Failed to " \o LowerCase(operationName), b.totalFiles, NoAmount, "")>>
  ELSE <<Line(operationName, b.successCount, NoAmount, "")>>
       \o (IF b.totalOriginalSize > 0 /\ b.totalProcessedSize > 0
           THEN <<Line("Saved", 0,
                       formatBytes(b.totalOriginalSize - b.totalProcessedSize),
                       Savings(b.totalOriginalSize, b.totalProcessedSize))>>
           ELSE << >>)
       \o (IF b.failureCount > 0
           THEN <<Line("failed", b.failureCount, NoAmount, "")>> ELSE << >>)

\* The function applied to the batch results of a range of counts and
\* totals, among them totals of zero, a processed total above the original
\* one and totals on both sides of a unit (amounts up to 1 MB: the
\* arithmetic of a tenth of a larger amount leaves the integers checked).
MaxCount == 2

Totals == {0, 1, 1023, kilo, 1536, Pow(kilo, 2)}

InitSummary ==
  /\ LocatorFresh
  /\ CommandIdle
  /\ options = [resize |-> FALSE, compress |-> TRUE, resizePreset |-> NoPreset]
  /\ outputFolderName = ""
  /\ files = << >>
  /\ fs = InitFS
  /\ dirs = {D}
  /\ i = 1
  /\ result = NoResult
  /\ results = << >>
  /\ errors = << >>
  /\ successCount = 0
  /\ failureCount = 0
  /\ totalOriginalSize = 0
  /\ totalProcessedSize = 0
  /\ calls = << >>
  /\ srcSize = Undef
  /\ guarded = {}
  /\ log = << >>
  /\ pc = "returned"
  /\ \E s \in 0..MaxCount, f \in 0..MaxCount, o \in Totals, p \in Totals :
       batch = [totalFiles |-> s + f, successCount |-> s, failureCount |-> f,
                totalOriginalSize |-> o, totalProcessedSize |-> p,
                results |-> << >>, errors |-> << >>]

\* const summary = generateBatchSummary(result, modeName); showHUD(summary)
ShowSummary ==
  /\ pc = "returned"
  /\ \E modeName \in {"Optimized", "Optimized (Max)", "Optimized (Min)"} :
       summary' = generateBatchSummary(batch, modeName)
  /\ pc' = "shown"
  /\ UNCHANGED <<titles, compressionMode, frame,
                 files, options, outputFolderName, fs, dirs, i, result, results,
                 errors, successCount, failureCount, totalOriginalSize,
                 totalProcessedSize, batch, calls, srcSize, guarded, log,
                 platform, cachedFfmpegPath, cachedGhostscriptPath, resolved,
                 detected>>

NextSummary == ShowSummary

SpecSummary == InitSummary /\ [][NextSummary]_vars

\* the kinds of the lines of the summary shown
KindsShown == {summary[j].kind : j \in 1..Len(summary)}

\* C23: the summary is the failure text alone when successCount is 0;
\* otherwise it has the saved-bytes line exactly when totalOriginalSize > 0
\* and totalProcessedSize > 0, and the failure-count line exactly when
\* failureCount > 0.
C23_SummaryLines ==
  pc = "shown" =>
    IF batch.successCount = 0
    THEN /\ Len(summary) = 1
         /\ summary[1].kind \in {"Failed to optimized", "Failed to optimized (max)",
                                 "Failed to optimized (min)"}
         /\ summary[1].count = batch.totalFiles
    ELSE /\ summary[1].kind \in {"Optimized", "Optimized (Max)", "Optimized (Min)"}
         /\ summary[1].count = batch.successCount
         /\ "Saved" \in KindsShown
              <=> (batch.totalOriginalSize > 0 /\ batch.totalProcessedSize > 0)
         /\ "failed" \in KindsShown <=> batch.failureCount > 0
         /\ \A j \in 1..Len(summary) :
              summary[j].kind = "failed" => summary[j].count = batch.failureCount

\* a partial success whose processed total is 0: no saved line, a failure line
C23_Witness ==
  /\ pc = "shown"
  /\ batch.successCount > 0 /\ batch.failureCount > 0
  /\ batch.totalOriginalSize > 0 /\ batch.totalProcessedSize = 0
  /\ KindsShown = {"Optimized", "failed"}

\* the amounts of the saved-bytes lines of the summary a command shows for
\* the batch result processBatch returned
AmountsShown ==
  LET text == generateBatchSummary(batch, "Optimized")
  IN {text[j].amount : j \in {h \in 1..Len(text) : text[h].kind = "Saved"}}

StepsOf(n) ==
  LET own == SelectSeq(log, LAMBDA e : e.idx = n)
  IN [j \in 1..Len(own) |-> own[j].ev]

\* the ways a file goes through the states, up to its terminal state
FinishedRuns ==
  {<<"classify", "failed">>, <<"classify", "transform", "failed">>,
   <<"classify", "transform", "place", "failed">>,
   <<"classify", "transform", "place", "succeeded">>}

\* the file being processed: classified, or classified and transformed
OpenRuns == {<<"classify">>, <<"classify", "transform">>}

\* C25: files are processed one at a time in input order: every file before
\* the current one went through classify, transform, place in that order up
\* to exactly one terminal state, the current file is part way and has no
\* terminal state, no later file has started, and in the order things
\* happened every step of a file comes after the terminal state of the file
\* before it.
C25_OneAtATime ==
  /\ \A n \in 1..Len(files) :
       IF n < i THEN StepsOf(n) \in FinishedRuns
       ELSE IF n = i /\ pc \in {"transform", "place"}
       THEN StepsOf(n) \in OpenRuns /\ (Len(StepsOf(n)) = 2 <=> pc = "place")
       ELSE StepsOf(n) = << >>
  /\ \A a \in 1..Len(log), b \in 1..Len(log) : a < b => log[a].idx <= log[b].idx

\* two files done, the first failed its classification, the second went
\* through every state
C25_Witness ==
  /\ pc = "returned" /\ Len(files) = 2
  /\ StepsOf(1) = <<"classify", "failed">>
  /\ StepsOf(2) = <<"classify", "transform", "place", "succeeded">>

\* the place of a stage in the order analyzing, transforming, finalizing
StageRank(stage) ==
  CASE stage \in {"Analyzing file", "Analyzing"} -> 1
    [] stage \in {"Resizing", "Compressing"} -> 2
    [] stage = "Finalizing" -> 3
    [] OTHER -> 0

\* the reports are in stage order, every stage among them, with percentages
\* that never decrease and end at 100
InStageOrder(p) ==
  /\ {StageRank(p[j].stage) : j \in 1..Len(p)} = {1, 2, 3}
  /\ \A j \in 1..(Len(p) - 1) :
       /\ StageRank(p[j].stage) <= StageRank(p[j + 1].stage)
       /\ p[j].percentage <= p[j + 1].percentage
  /\ p[Len(p)].percentage = 100

\* C26 (as stated): every transform operation that succeeds reports exactly
\* four milestones, in stage order, with non-decreasing percentages ending
\* at 100.
C26_FourMilestones ==
  (Ran /\ calls[1].r.success) =>
    /\ Len(calls[1].progress) = 4
    /\ InStageOrder(calls[1].progress)

\* C26 (amended): every transform operation that succeeds reports its
\* milestones in stage order, with non-decreasing percentages ending at 100:
\* four of them (10, 40, 90, 100) for compressImage, compressVideo and
\* compressPDF, five (10, 30, 60 or 50, 90, 100) for resizeImage and
\* resizeVideo, which report the resizing stage twice.
C26_MilestonesInOrder ==
  (Ran /\ calls[1].r.success) =>
    LET p == calls[1].progress
        pct == [j \in 1..Len(p) |-> p[j].percentage]
    IN /\ InStageOrder(p)
       /\ pct = CASE calls[1].op = "resizeImage" -> <<10, 30, 60, 90, 100>>
                  [] calls[1].op = "resizeVideo" -> <<10, 30, 50, 90, 100>>
                  [] OTHER -> <<10, 40, 90, 100>>

\* a resizeVideo that succeeded after five reports
C26_Witness ==
  /\ Ran /\ calls[1].op = "resizeVideo" /\ calls[1].r.success
  /\ Len(calls[1].progress) = 5
  /\ calls[1].progress[3] = Report("Resizing", 50)

\* ------------------------------------------------- the progress callback
\* (a percentage cut off instead of rounded)
OverallTruncated(fileNumber, totalFiles, percentage) ==
  {(100 * (fileNumber - 1) + percentage) \div totalFiles}

\* Math.round(((fileNumber - 1 + percentage / 100) / totalFiles) * 100): the
\* values the expression can take. The quotient is computed in doubles;
\* where it is exactly a half in the rationals the double may come out just
\* below it (N = 2, file 1, 29%: 14.499999999999998), so Math.round gives
\* the integer above or the one below.
Overall(fileNumber, totalFiles, percentage) ==
  LET a == 100 * (fileNumber - 1) + percentage
      up == (2 * a + totalFiles) \div (2 * totalFiles)
  IN IF (2 * a) % (2 * totalFiles) = totalFiles THEN {up - 1, up} ELSE {up}

\* The callback called for a file of a batch of up to MaxBatch files, with
\* every percentage from 0 to 100.
MaxBatch == 4

InitProgress ==
  /\ LocatorFresh
  /\ CommandIdle
  /\ \E n \in 1..MaxBatch : files = [j \in 1..n |-> InDir(<<"a", "png">>)]
  /\ options = [resize |-> FALSE, compress |-> TRUE, resizePreset |-> NoPreset]
  /\ outputFolderName = ""
  /\ fs = InitFS
  /\ dirs = {D}
  /\ i \in 1..Len(files)
  /\ result = NoResult
  /\ results = << >>
  /\ errors = << >>
  /\ successCount = 0
  /\ failureCount = 0
  /\ totalOriginalSize = 0
  /\ totalProcessedSize = 0
  /\ batch = NoBatch
  /\ calls = << >>
  /\ srcSize = Undef
  /\ guarded = {}
  /\ log = << >>
  /\ pc = "transform"

\* progressCallback(stage, percentage): showToast with the title
\* `File ${fileNumber}/${totalFiles} (${overall}%)`
ProgressCallback ==
  /\ pc = "transform"
  /\ \E percentage \in 0..100 :
     \E overall \in Overall(i, Len(files), percentage) :
       titles' = <<[fileNumber |-> i, totalFiles |-> Len(files),
                    percentage |-> percentage, overall |-> overall]>>
  /\ UNCHANGED <<compressionMode, summary, frame,
                 files, options, outputFolderName, fs, dirs, pc, i, result,
                 results, errors, successCount, failureCount, totalOriginalSize,
                 totalProcessedSize, batch, calls, srcSize, guarded, log,
                 platform, cachedFfmpegPath, cachedGhostscriptPath, resolved,
                 detected>>

NextProgress == ProgressCallback

SpecProgress == InitProgress /\ [][NextProgress]_vars

\* C27 (as stated): the overall percentage in a title lies in [0, 100] and
\* within the share of its file, between 100 * (k - 1) / N and 100 * k / N.
C27_WithinShare ==
  \A j \in 1..Len(titles) :
    LET t == titles[j]
    IN /\ t.overall \in 0..100
       /\ 100 * (t.fileNumber - 1) <= t.overall * t.totalFiles
       /\ t.overall * t.totalFiles <= 100 * t.fileNumber

\* C27 (amended): the overall percentage in a title is an integer nearest to
\* (100 * (k - 1) + p) / N, at most a half away from it; it lies in [0, 100]
\* and within half a point of the share of its file.
C27_NearestToShare ==
  \A j \in 1..Len(titles) :
    LET t == titles[j]
        a == 100 * (t.fileNumber - 1) + t.percentage
    IN /\ t.overall \in 0..100
       /\ 2 * a - t.totalFiles <= 2 * t.totalFiles * t.overall
       /\ 2 * t.totalFiles * t.overall <= 2 * a + t.totalFiles
       /\ 2 * 100 * (t.fileNumber - 1) - t.totalFiles <= 2 * t.totalFiles * t.overall
       /\ 2 * t.totalFiles * t.overall <= 2 * 100 * t.fileNumber + t.totalFiles

\* file 2 of 3 at 100%: the title shows 67, above the 66.67 its share ends at
C27_Witness ==
  /\ Len(titles) = 1
  /\ titles[1] = [fileNumber |-> 2, totalFiles |-> 3, percentage |-> 100, overall |-> 67]

\* the executable an operation run on this platform and disk tries to start,
\* as text
PathTried ==
  IF calls[1].op = "compressPDF"
  THEN IF platform = "win32" THEN "gswin64c.exe"
       ELSE IF Exists(fs, unixPaths[1]) THEN "/opt/homebrew/bin/gs" ELSE "gs"
  ELSE IF platform = "darwin" /\ Exists(fs, systemPaths[1])
       THEN "/opt/homebrew/bin/ffmpeg" ELSE "ffmpeg"

ToolName == IF calls[1].op = "compressPDF" THEN "Ghostscript" ELSE "FFmpeg"

\* what a message goes on with after the path
AfterPath ==
  {" ENOENT"}
    \cup {". Asset path: " \o asset \o ". Error: spawn " \o PathTried \o " ENOENT" :
            asset \in {"/ext/assets/ffmpeg", "/ext/assets/ffmpeg.exe"}}
    \cup {". Please install Ghostscript from https://ghostscript.com/releases/gsdnld.html (Windows) or via 'brew install ghostscript' (macOS). Error: spawn "
            \o PathTried \o " ENOENT"}

\* C28: when the executable of a transform operation cannot be started, the
\* operation fails with a message that names the tool, says it was not
\* found, and names the path that was tried.
C28_NotFoundNamesToolAndPath ==
  (Ran /\ srcSize # Undef /\ calls[1].oc.kind = "spawn") =>
    /\ ~calls[1].r.success
    /\ \E lead \in {"spawn ", "Tried: "}, rest \in AfterPath :
         calls[1].r.error = ToolName \o " not found. " \o lead \o PathTried \o rest

\* resizeVideo could not start the Homebrew FFmpeg it had resolved to
C28_Witness ==
  /\ Ran /\ srcSize # Undef /\ calls[1].oc.kind = "spawn"
  /\ calls[1].op = "resizeVideo"
  /\ calls[1].r.error = "FFmpeg not found. spawn /opt/homebrew/bin/ffmpeg ENOENT"

\* ------------------------------------------------ the scale filter, alone
Min(a, b) == IF a <= b THEN a ELSE b

\* the width and height expressions of the scale filter resizeImage builds:
\* 'min(maxWidth,iw)':'min(maxHeight,ih)' for a preset with maxWidth and
\* maxHeight, width:height for one with width and height, no filter
\* otherwise
scaleFilter(preset, iw, ih) ==
  IF preset.maxWidth # 0 /\ preset.maxHeight # 0
  THEN [w |-> Min(preset.maxWidth, iw), h |-> Min(preset.maxHeight, ih)]
  ELSE IF preset.width # 0 /\ preset.height # 0
  THEN [w |-> preset.width, h |-> preset.height]
  ELSE [w |-> iw, h |-> ih]

\* FFmpeg's scale with force_original_aspect_ratio=decrease: each requested
\* dimension is lowered to what the other one allows at the input's aspect
\* ratio (rounded to the nearest pixel)
ScaleDecrease(w, h, iw, ih) ==
  [w |-> Min((h * iw + ih \div 2) \div ih, w),
   h |-> Min((w * ih + iw \div 2) \div iw, h)]

\* the sizes of the images resized: smaller than every preset, between
\* presets, larger than every preset, landscape, portrait and square
SourceWidths == {320, 640, 1280, 2000, 3000}
SourceHeights == {240, 360, 1280, 2000, 4000}

InitResize ==
  /\ LocatorFresh
  /\ BatchIdle
  /\ titles = << >>
  /\ compressionMode = ""
  /\ summary = NoSummary
  /\ files = <<InDir(<<"a", "png">>)>>
  /\ fs = InitFS
  /\ pc = "scale"
  /\ \E iw \in SourceWidths, ih \in SourceHeights :
       frame = [iw |-> iw, ih |-> ih, preset |-> NoPreset, ow |-> 0, oh |-> 0]

\* resizeImage(inputPath, preset) with a preset a command can hand it: the
\* commands take it from either catalog, for all the files selected
ScaleImage ==
  /\ pc = "scale"
  /\ \E catalog \in {IMAGE_PRESETS, VIDEO_PRESETS} :
     \E n \in 1..Len(catalog) :
       LET filter == scaleFilter(catalog[n], frame.iw, frame.ih)
           out == ScaleDecrease(filter.w, filter.h, frame.iw, frame.ih)
       IN frame' = [frame EXCEPT !.preset = catalog[n], !.ow = out.w, !.oh = out.h]
  /\ pc' = "scaled"
  /\ UNCHANGED <<titles, compressionMode, summary,
                 files, options, outputFolderName, fs, dirs, i, result, results,
                 errors, successCount, failureCount, totalOriginalSize,
                 totalProcessedSize, batch, calls, srcSize, guarded, log,
                 platform, cachedFfmpegPath, cachedGhostscriptPath, resolved,
                 detected>>

NextResize == ScaleImage

SpecResize == InitResize /\ [][NextResize]_vars

\* C29: resizeImage never upscales: for every preset of the image and video
\* catalogs and every source size the output is no wider and no higher than
\* the source, and has the source's aspect ratio to the pixel.
C29_NeverUpscales ==
  pc = "scaled" =>
    /\ frame.ow <= frame.iw
    /\ frame.oh <= frame.ih
    /\ (frame.ow - 1) * frame.ih < frame.oh * frame.iw + frame.iw
    /\ (frame.oh - 1) * frame.iw < frame.ow * frame.ih + frame.ih

\* ------------------------------------------- the Compress Files command
\* enum CompressionMode
Original_ == "original"
MaxOptimize == "max"
MinimumOptimize == "minimum"

\* the values the compressionMode preference can hold: unset, the three
\* modes, anything else
Preferences == {"", Original_, MaxOptimize, MinimumOptimize, "other"}

\* the files the user can have selected
Selectable == {InDir(<<"a", "png">>), InDir(<<"a", "mp4">>)}

\* the options the switch on compressionMode builds: one preset of the image
\* catalog for the whole batch
OptionsFor(mode) ==
  IF mode = Original_
  THEN [resize |-> FALSE, compress |-> TRUE, resizePreset |-> NoPreset]
  ELSE IF mode = MinimumOptimize
  THEN [resize |-> TRUE, compress |-> TRUE,
        resizePreset |-> Find(IMAGE_PRESETS, "Medium")]
  ELSE [resize |-> TRUE, compress |-> TRUE,
        resizePreset |-> Find(IMAGE_PRESETS, "2K")]

\* const modeName = ...
ModeName(mode) ==
  IF mode = Original_ THEN "Optimized"
  ELSE IF mode = MaxOptimize THEN "Optimized (Max)"
  ELSE "Optimized (Min)"

InitCommand ==
  /\ LocatorFresh
  /\ BatchIdle
  /\ titles = << >>
  /\ summary = NoSummary
  /\ frame = NoFrame
  /\ compressionMode \in Preferences
  /\ files \in SeqsUpTo(Selectable, MaxFiles)
  /\ fs = InitFS
  /\ pc = "command"

\* Command(), up to the call of processBatch(filePaths, options)
Command ==
  /\ pc = "command"
  /\ IF Len(files) = 0
     THEN /\ pc' = "exit"
          /\ UNCHANGED <<compressionMode, options>>
     ELSE /\ compressionMode' =
               IF compressionMode = "" THEN MaxOptimize ELSE compressionMode
          /\ options' = OptionsFor(compressionMode')
          /\ pc' = "classify"
  /\ UNCHANGED <<titles, summary, frame,
                 files, outputFolderName, fs, dirs, i, result, results,
                 errors, successCount, failureCount, totalOriginalSize,
                 totalProcessedSize, batch, calls, srcSize, guarded, log,
                 platform, cachedFfmpegPath, cachedGhostscriptPath, resolved,
                 detected>>

\* Command(), after processBatch has returned: the summary
CommandSummary ==
  /\ pc = "returned"
  /\ summary' = generateBatchSummary(batch, ModeName(compressionMode))
  /\ pc' = "shown"
  /\ UNCHANGED <<titles, compressionMode, frame,
                 files, options, outputFolderName, fs, dirs, i, result, results,
                 errors, successCount, failureCount, totalOriginalSize,
                 totalProcessedSize, batch, calls, srcSize, guarded, log,
                 platform, cachedFfmpegPath, cachedGhostscriptPath, resolved,
                 detected>>

NextCommand ==
  \/ Command
  \/ Classify
  \/ RouteFile
  \/ PlaceAndRecord
  \/ Return
  \/ CommandSummary

SpecCommand == InitCommand /\ [][NextCommand]_vars

\* the catalog of the type of the file a resize operation works on
CatalogOf(op) == IF op = "resizeVideo" THEN VIDEO_PRESETS ELSE IMAGE_PRESETS

\* C30: in the Max Optimize and Minimum Optimize modes every image of the
\* batch is resized with a preset of the image catalog and every video with
\* a preset of the video catalog.
C30_PresetByFileType ==
  compressionMode \in {MaxOptimize, MinimumOptimize} =>
    \A n \in 1..Len(calls) :
      calls[n].op \in {"resizeImage", "resizeVideo"} =>
        \E m \in 1..Len(CatalogOf(calls[n].op)) :
          calls[n].preset = CatalogOf(calls[n].op)[m]

\* ------------------------------------------------- the two result lists
\* the positions of the input list whose files ended as ev, in the order
\* the entries were pushed
Positions(ev) == [n \in 1..Len(EventsOf(ev)) |-> EventsOf(ev)[n].idx]

Increasing(s) == \A a \in 1..Len(s), b \in 1..Len(s) : a < b => s[a] < s[b]

\* C37: in every BatchResult results has successCount entries and errors has
\* failureCount entries, both lists are in input order, every failure entry
\* has a non-empty message, and every position of the input list is in
\* exactly one of the two lists.
C37_ListsPartitionInput ==
  pc = "returned" =>
    \A won \in {Positions("succeeded")}, lost \in {Positions("failed")} :
      /\ Len(batch.results) = batch.successCount
      /\ Len(batch.errors) = batch.failureCount
      /\ Len(won) = Len(batch.results)
      /\ Len(lost) = Len(batch.errors)
      /\ Increasing(won) /\ Increasing(lost)
      /\ \A n \in 1..Len(batch.results) :
           batch.results[n].fileName = files[won[n]].name
      /\ \A n \in 1..Len(batch.errors) :
           /\ batch.errors[n].file = files[lost[n]].name
           /\ batch.errors[n].error # ""
      /\ \A k \in 1..Len(files) :
           (\E n \in 1..Len(won) : won[n] = k) # (\E n \in 1..Len(lost) : lost[n] = k)

\* a batch of two that ends with one entry in each list, the failure first
C37_Witness ==
  /\ pc = "returned" /\ Len(files) = 2
  /\ Positions("failed") = <<1>> /\ Positions("succeeded") = <<2>>
  /\ Len(batch.results) = 1 /\ Len(batch.errors) = 1

\* ------------------------------------------------- the cache is sticky
\* the places of the search that rank above p
RankedAbove(p) ==
  {PriorityOrder[j] : j \in {j \in 1..Len(PriorityOrder) :
                               \E k \in 1..Len(PriorityOrder) :
                                 PriorityOrder[k] = p /\ j < k}}

\* C38: while the cached tool path exists, a resolve call returns that same
\* path without searching and leaves the cache as it is, even when a place
\* the search ranks higher holds an executable by now.
C38_CacheSticky ==
  (Resolved /\ resolved.before # NoPath /\ Exists(fs, resolved.before)) =>
    /\ resolved.hit
    /\ resolved.path = resolved.before
    /\ CacheOfResolved = resolved.before

\* Ghostscript was cached at a lower-ranked place and a higher-ranked one
\* has been installed since
C38_Witness ==
  /\ Resolved /\ resolved.tool = "gs"
  /\ resolved.before # NoPath /\ Exists(fs, resolved.before)
  /\ resolved.path = resolved.before
  /\ \E q \in RankedAbove(resolved.before) : Exists(fs, q)

\* ------------------------------------------- what is reported as not found
\* the texts an operation puts between "<Tool> not found. " and the message
\* of the error it caught
BeforeCause ==
  {""}
    \cup {"Tried: " \o PathTried \o ". Asset path: " \o asset \o ". Error: " :
            asset \in {"/ext/assets/ffmpeg", "/ext/assets/ffmpeg.exe"}}
    \cup {"Tried: " \o PathTried
            \o ". Please install Ghostscript from https://ghostscript.com/releases/gsdnld.html (Windows) or via 'brew install ghostscript' (macOS). Error: "}

\* the failure was reported as "FFmpeg not found" / "Ghostscript not found",
\* and the error that was caught
NotFoundReportOf(cause) ==
  \E lead \in BeforeCause :
    calls[1].r.error = ToolName \o " not found. " \o lead \o cause

NotFoundReported ==
  \/ NotFoundReportOf("spawn " \o PathTried \o " ENOENT")
  \/ NotFoundReportOf("ENOENT: no such file or directory, stat")
  \/ NotFoundReportOf("Command failed: " \o PathTried)
  \/ \E what \in {"", ". FFmpeg stderr", ". Ghostscript stderr"} :
       NotFoundReportOf("Output file not created" \o what)

\* C36: a transform operation reports the tool-not-found error only when
\* the external executable could not be started; a failure with another
\* cause, such as the input file missing when its size is read, is not
\* reported as "FFmpeg not found" or "Ghostscript not found".
C36_NotFoundOnlyWhenNotStarted ==
  (Ran /\ ~calls[1].r.success /\ NotFoundReported) =>
    (srcSize # Undef /\ calls[1].oc.kind = "spawn")

\* ------------------------------------------------ only what was requested
ResizeOperations == {"resizeImage", "resizeVideo"}

CompressOperations == {"compressImage", "compressVideo", "compressPDF"}

\* C34: a transform runs on a file only if the options request it; in
\* particular with resize-only options no compress operation is invoked for
\* any file of the batch, whatever its category.
C34_OnlyRequestedTransforms ==
  \A k \in 1..Len(calls) :
    /\ calls[k].op \in ResizeOperations => options.resize
    /\ calls[k].op \in CompressOperations => options.compress

\* ------------------------------------------- batches with related names
\* A directory that holds files whose names are the output or intermediate
\* names of one another, and a batch over any of them.
SameNameFS ==
  (InDir(<<"a", "png">>) :> Original("image/png"))
  @@ (InDir(<<"a", "jpg">>) :> Original("image/jpeg"))
  @@ (InDir(<<"a", "min", "webp">>) :> Original("image/webp"))
  @@ (InDir(<<"a", "resized", "webp">>) :> Original("image/webp"))
  @@ (InDir(<<"a", "mp4">>) :> Original("video/mp4"))
  @@ (InDir(<<"a", "resized", "mp4">>) :> Original("video/mp4"))

InitSameName ==
  /\ LocatorFresh
  /\ CommandIdle
  /\ files \in SeqsUpTo(DOMAIN SameNameFS, MaxFiles)
  /\ options \in OptionSets
  /\ outputFolderName \in {"", "Optimized"}
  /\ fs = SameNameFS
  /\ dirs = {D}
  /\ pc = "classify"
  /\ i = 1
  /\ result = NoResult
  /\ results = << >>
  /\ errors = << >>
  /\ successCount = 0
  /\ failureCount = 0
  /\ totalOriginalSize = 0
  /\ totalProcessedSize = 0
  /\ batch = NoBatch
  /\ calls = << >>
  /\ srcSize = Undef
  /\ guarded = {}
  /\ log = << >>

SpecSameName == InitSameName /\ [][Next]_vars

\* C31: processBatch never overwrites, truncates or deletes a file of its
\* own input list: every input file is on disk with the content it had when
\* the batch started, whatever the other files of the batch produce.
C31_InputsIntact ==
  \A k \in 1..Len(files) :
    /\ Exists(fs, files[k])
    /\ fs[files[k]] = SameNameFS[files[k]]

\* C32: within one batch two distinct input files that both succeed have
\* distinct final output paths.
C32_DistinctOutputs ==
  pc = "returned" =>
    \A m \in 1..Len(batch.results), n \in 1..Len(batch.results) :
      files[Positions("succeeded")[m]] # files[Positions("succeeded")[n]] =>
        batch.results[m].outputPath # batch.results[n].outputPath

\* the intermediate path of the two-stage pipeline run on a file
IntermediatePath(filePath) ==
  IF detectFileCategory(SameNameFS, filePath).category = "video"
  THEN OutputPathFor(filePath, <<"resized", "mp4">>)
  ELSE OutputPathFor(filePath, <<"resized", "webp">>)

\* C33: the resize-and-compress pipeline deletes only files it created
\* itself: a file that was at the intermediate path before the pipeline
\* started is there with unchanged content after the pipeline returns.
C33_ForeignIntermediateKept ==
  [][(pc = "transform" /\ pc' = "place"
        /\ options.resize /\ options.compress
        /\ Exists(fs, IntermediatePath(files[i]))) =>
       /\ Exists(fs', IntermediatePath(files[i]))
       /\ fs'[IntermediatePath(files[i])] = fs[IntermediatePath(files[i])]]_vars

\* ------------------------------------- the progress sink, across a batch
\* processBatch with the reports of each file's pipeline delivered through
\* progressCallback, one showToast per report, while routeFileCompression
\* is awaited.
SinkPaths ==
  {InDir(<<"a", "png">>), InDir(<<"a", "mp4">>), InDir(<<"a", "pdf">>),
   InDir(<<"a", "txt">>)}

InitSink ==
  /\ LocatorFresh
  /\ CommandIdle
  /\ files \in SeqsUpTo(SinkPaths, MaxFiles)
  /\ options \in OptionSets
  /\ outputFolderName = ""
  /\ fs = InitFS
  /\ dirs = {D}
  /\ pc = "classify"
  /\ i = 1
  /\ result = NoResult
  /\ results = << >>
  /\ errors = << >>
  /\ successCount = 0
  /\ failureCount = 0
  /\ totalOriginalSize = 0
  /\ totalProcessedSize = 0
  /\ batch = NoBatch
  /\ calls = << >>
  /\ srcSize = Undef
  /\ guarded = {}
  /\ log = << >>

\* the reports the transform operations of the current file make, in order
RECURSIVE ReportsOf(_)
ReportsOf(cs) ==
  IF cs = << >> THEN << >> ELSE Head(cs).progress \o ReportsOf(Tail(cs))

\* how many of them the sink has received
Delivered == Len(SelectSeq(titles, LAMBDA t : t.fileNumber = i))

\* routeFileCompression(filePath, options, pdfQuality, progressCallback) is
\* called; the external processes it starts will end one of the ways they can
RouteFileCalled ==
  /\ pc = "transform"
  /\ \E oc1 \in Outcomes :
     \E oc2 \in SecondOutcomes(fs, files[i], options, oc1) :
       calls' = routeFileCompression(fs, files[i], options, oc1, oc2).calls
  /\ pc' = "reporting"
  /\ UNCHANGED <<titles, compressionMode, summary, frame,
                 files, options, outputFolderName, fs, dirs, i, result, results,
                 errors, successCount, failureCount, totalOriginalSize,
                 totalProcessedSize, batch, srcSize, guarded, log, platform,
                 cachedFfmpegPath, cachedGhostscriptPath, resolved, detected>>

\* progressCallback(stage, percentage), called by a transform operation
ReportProgress ==
  /\ pc = "reporting"
  /\ Delivered < Len(ReportsOf(calls))
  /\ \E overall \in Overall(i, Len(files), ReportsOf(calls)[Delivered + 1].percentage) :
       titles' = Append(titles,
                        [fileNumber |-> i, totalFiles |-> Len(files),
                         percentage |-> ReportsOf(calls)[Delivered + 1].percentage,
                         overall |-> overall])
  /\ UNCHANGED <<compressionMode, summary, frame,
                 files, options, outputFolderName, fs, dirs, pc, i, result,
                 results, errors, successCount, failureCount, totalOriginalSize,
                 totalProcessedSize, batch, calls, srcSize, guarded, log,
                 platform, cachedFfmpegPath, cachedGhostscriptPath, resolved,
                 detected>>

\* the await settles once the operations have made their reports
RouteFileSettled ==
  /\ pc = "reporting"
  /\ Delivered = Len(ReportsOf(calls))
  /\ \E oc1 \in (IF calls = << >> THEN {[kind |-> "ok", size |-> SrcSize]}
                 ELSE {calls[1].oc}) :
     \E oc2 \in (IF Len(calls) = 2 THEN {calls[2].oc} ELSE {oc1}) :
     \E x \in {routeFileCompression(fs, files[i], options, oc1, oc2)} :
       Settle(x)
  /\ srcSize' = fs[files[i]].size
  /\ log' = Append(log, Event(i, "transform"))
  /\ pc' = "place"
  /\ UNCHANGED <<titles, compressionMode, summary, frame,
                 files, options, outputFolderName, dirs, i, results, errors,
                 successCount, failureCount, totalOriginalSize,
                 totalProcessedSize, batch, platform, resolved, detected>>

NextSink ==
  Classify \/ RouteFileCalled \/ ReportProgress \/ RouteFileSettled
    \/ PlaceAndRecord \/ Return

SpecSink == InitSink /\ [][NextSink]_vars

\* C35: across a whole batch the overall percentage delivered to the
\* progress sink never decreases from one report to the next, also for
\* files that run the resize-then-compress pipeline.
C35_OverallNeverDecreases ==
  \A j \in 1..(Len(titles) - 1) : titles[j].overall <= titles[j + 1].overall

====
